---- MODULE Spec2Model ----
(***************************************************************************)
(* Crann v2: one Store (service worker) and N Agents exchanging state and  *)
(* RPC messages over the porter transport, with chrome.storage behind the  *)
(* Store's Persistence module.                                             *)
(*                                                                         *)
(* Strings that end up in storage keys are sequences of one-character      *)
(* strings, so that key construction is real concatenation.                *)
(*                                                                         *)
(* Specifications, all over the same variables:                            *)
(*   Spec        Store and Agents synchronising state, with hydration      *)
(*   SpecRpc     Agents calling actions; connections ending; destroy       *)
(*   SpecApi     the Store's public API before and after destroy()         *)
(*   SpecIso     writes attributed to a connection                         *)
(*   SpecHydrate hydration racing with the owner's first writes            *)
(*   SpecAgent   the Agent alone, its porter answering calls               *)
(*   SpecKeys    two Persistence instances over one storage                *)
(*   SpecHooks   the Agent's callbacks, its transport driven by hand       *)
(*   SpecReady   the Agent's state cache and ready()                       *)
(*   SpecExec    the ActionExecutor serving one Agent                      *)
(*   SpecReply   RPC results and their addressees                          *)
(*   SpecListen  Store subscribers that throw                              *)
(*   SpecNotify  who is sent a stateUpdate                                 *)
(*   SpecShake   connect, channel-ready and the initial snapshot           *)
(*   SpecSub     Agent subscribers and their key lists                     *)
(*   SpecPersist Store.setState down to the storage writes                 *)
(*   SpecOrder   setState calls that wait on storage and calls that do not *)
(*   SpecRace    two action handlers writing the same key                  *)
(*   SpecFail    an action handler that writes and then throws             *)
(*   SpecSM      StateManager.setState on partials of several keys         *)
(*   SpecClear   clearAll() of one of two Persistence instances            *)
(*   SpecTeardown destroy({clearPersisted: true}) while the Store starts   *)
(*   SpecQuota   storage writes that fail                                  *)
(*   SpecReset   clear() while Agents are connected                        *)
(*   SpecLate    connections made while the Store is still hydrating       *)
(*   SpecFlight  setState calls overlapping while a subscriber listens     *)
(*   SpecSnap    the initial snapshot after writes of every kind           *)
(***************************************************************************)
EXTENDS Integers, Sequences, FiniteSets, TLC

\* ------------------------------------------------------------------------
\* Bounds of the model
\* ------------------------------------------------------------------------
MaxQueue == 2
MaxCalls == 2
MaxOps == 2

\* ------------------------------------------------------------------------
\* The config under study (createConfig): name "t", version 1,
\*   count:     { default: 0, persist: 'local' }          (shared)
\*   agentData: { default: 0, scope: 'agent' }
\*   actions:   { setCount, fetchData }
\* ------------------------------------------------------------------------
None == "none"
NoAgent == "noAgent"
\* an absent callId, as a Map key: it equals no `${callId++}`
Undefined == <<"undefined">>
NoError == <<>>
NoMeta == [version |-> 0, createdAt |-> "none"]

Agents == {"a1", "a2"}
Val == {0, 5}

count == <<"c", "o", "u", "n", "t">>
agentData == <<"a", "d">>
bogus == <<"x">>

StoreName == <<"t">>
StoreVersion == 1

ConfigKeys == {count, agentData}

Scope(k) == IF k = agentData THEN "agent" ELSE "shared"

Persist(k) == IF k = count THEN "local" ELSE "none"

Default(k) == 0

\* isStateItem(config[key]): "name", "version" and "actions" are no state items
isStateItem(k) == k \in ConfigKeys

SharedKeys == {k \in ConfigKeys : Scope(k) = "shared"}
AgentKeys == {k \in ConfigKeys : Scope(k) = "agent"}

\* ------------------------------------------------------------------------
\* Partial objects: functions from a set of keys to values
\* ------------------------------------------------------------------------
Empty == [k \in {} |-> 0]

\* { ...a, ...b }
Merge(a, b) ==
  [k \in (DOMAIN a) \cup (DOMAIN b) |-> IF k \in DOMAIN b THEN b[k] ELSE a[k]]

Restrict(f, S) == [k \in (DOMAIN f) \cap S |-> f[k]]

Single(k, v) == [x \in {k} |-> v]

\* ------------------------------------------------------------------------
\* Persistence: storage keys
\* ------------------------------------------------------------------------
RECURSIVE Digits(_)
Digits(n) ==
  IF n < 10 THEN <<CASE n = 0 -> "0" [] n = 1 -> "1" [] n = 2 -> "2"
                     [] n = 3 -> "3" [] n = 4 -> "4" [] n = 5 -> "5"
                     [] n = 6 -> "6" [] n = 7 -> "7" [] n = 8 -> "8"
                     [] OTHER -> "9">>
  ELSE Digits(n \div 10) \o Digits(n % 10)

Crann == <<"c", "r", "a", "n", "n">>

\* a key that leaves the version out
buildKeyForNoVersion(name, version, key) == Crann \o <<":">> \o name \o <<":">> \o key

\* `crann:${name}:v${version}:${key}`
buildKeyFor(name, version, key) ==
  Crann \o <<":">> \o name \o <<":", "v">> \o Digits(version) \o <<":">> \o key

buildKey(key) == buildKeyFor(StoreName, StoreVersion, key)

\* `crann:${name}:__meta`
getMetaKeyFor(name) == Crann \o <<":">> \o name \o <<":", "_", "_", "m", "e", "t", "a">>

getMetaKey == getMetaKeyFor(StoreName)

\* ------------------------------------------------------------------------
\* State
\* ------------------------------------------------------------------------
VARIABLES
  \* Store
  isDestroyed,              \* Store.isDestroyed
  sharedState,              \* StateManager.sharedState
  agentStates,              \* StateManager.agentStates (Map agentId -> state)
  registry,                 \* AgentRegistry.agents (ids)
  initializedAgents,        \* setupMessageHandlers: initializedAgents
  stateChangeListeners,     \* Store.stateChangeListeners, in insertion order
  agentConnectListeners,    \* Store.agentConnectListeners
  agentDisconnectListeners, \* Store.agentDisconnectListeners
  hydPc,                    \* position of the constructor's hydrate() call
  hydrated,                 \* hydratedState computed by Persistence.hydrate
  inflight,                 \* storage operations awaited by the Store, in issue order
  execs,                    \* action handlers suspended on an external await
  \* chrome.storage
  local,                    \* browser.storage.local
  session,                  \* browser.storage.session
  \* porter transport
  link,                     \* the Store-side porter's view of each connection
  toStore,                  \* messages in flight Agent -> Store
  toAgent,                  \* messages in flight Store -> Agent
  \* Agents
  cache,                    \* Agent._state
  agentInfo,                \* Agent._agentInfo
  isConnected,              \* Agent._isConnected
  isDisconnected,           \* Agent._isDisconnected
  readyValue,               \* whether readyPromise has resolved, and with what
  callId,                   \* createActionsProxy: callId
  pendingCalls,             \* createActionsProxy: pendingCalls (ids)
  promises,                 \* the promises returned by actions.<name>(), by id
  callbacks,                \* Agent.subscribers, readyCallbacks, disconnectCallbacks,
                            \* reconnectCallbacks, and the timers onReady has set
  invoked,                  \* the callbacks each Agent has invoked so far
  lateCalls,                \* the calls made on each Agent after its disconnect()
  earlyWrites,              \* the keys written to an Agent's state before its first
                            \* initialState, and by what
  \* observations
  lastCall,                 \* the last public Store call and whether it threw
  lastSet,                  \* what the last finished Store.setState call caused
  written,                  \* shared keys a Store write has touched so far
  stores,                   \* the two Persistence instances of SpecKeys
  configActions,            \* config.actions: whether declared, and the names declared
  lastExec,                 \* what the last ActionExecutor.execute call did
  snapAt,                   \* ghost: each initialState was posted before or after hydration completed
  ops                       \* calls made so far by the code using Store and Agents

storeVars == <<isDestroyed, sharedState, agentStates, registry, initializedAgents,
               stateChangeListeners, agentConnectListeners, agentDisconnectListeners,
               configActions>>
asyncVars == <<hydPc, hydrated, inflight, execs>>
storageVars == <<local, session>>
portVars == <<link, toStore, toAgent>>
agentVars == <<cache, agentInfo, isConnected, isDisconnected, readyValue,
               callId, pendingCalls, promises, callbacks, invoked, lateCalls,
               earlyWrites>>
obsVars == <<lastCall, lastSet, written, lastExec,
               snapAt>>

vars == <<storeVars, asyncVars, storageVars, portVars, agentVars, obsVars, stores, ops>>

\* one more call by the application code
Input == ops < MaxOps /\ ops' = ops + 1

\* ------------------------------------------------------------------------
\* StateManager
\* ------------------------------------------------------------------------
Put(f, k, v) == [x \in (DOMAIN f) \cup {k} |-> IF x = k THEN v ELSE f[x]]

Remove(f, k) == [x \in (DOMAIN f) \ {k} |-> f[x]]

buildDefaultSharedState == [k \in SharedKeys |-> Default(k)]

buildDefaultAgentState == [k \in AgentKeys |-> Default(k)]

\* this.agentStates.get(agentId) ?? { ...this.defaultAgentState }
getAgentStateOf(ags, agentId) ==
  IF agentId \in DOMAIN ags THEN ags[agentId] ELSE buildDefaultAgentState

getAgentState(agentId) == getAgentStateOf(agentStates, agentId)

getFullStateForAgent(agentId) == Merge(sharedState, getAgentState(agentId))

\* a split that takes every key for a shared one
splitSharedAny(state) == state

\* the split of setState's first loop
splitShared(state) ==
  Restrict(state, {k \in DOMAIN state : isStateItem(k) /\ Scope(k) # "agent"})

splitAgent(state, agentId) ==
  IF agentId = NoAgent THEN Empty
  ELSE Restrict(state, {k \in DOMAIN state : isStateItem(k) /\ Scope(k) = "agent"})

\* a handler that writes the partial into every agent's state
setAgentStateOfAll(ags, agentId, state) ==
  [a \in (DOMAIN ags) \cup {agentId} |-> Merge(getAgentStateOf(ags, a), state)]

\* StateManager.setAgentState on a given map
setAgentStateOf(ags, agentId, state) ==
  LET currentState == getAgentStateOf(ags, agentId)
      newState == Merge(currentState, state)
  IN IF newState # currentState THEN Put(ags, agentId, newState) ELSE ags

\* StateManager.setState: the new maps and the two change sets it returns
\* a setState under which the value already held wins
SM_setStateKeep(state, agentId) ==
  [shared |-> sharedState, agents |-> agentStates,
   sharedChanges |-> splitShared(state), agentChanges |-> splitAgent(state, agentId)]

SM_setState(state, agentId) ==
  LET sharedChanges == splitShared(state)
      agentChanges == splitAgent(state, agentId)
  IN [shared |-> IF DOMAIN sharedChanges # {}
                 THEN Merge(sharedState, sharedChanges) ELSE sharedState,
      agents |-> IF agentId # NoAgent /\ DOMAIN agentChanges # {}
                 THEN setAgentStateOf(agentStates, agentId, agentChanges)
                 ELSE agentStates,
      sharedChanges |-> sharedChanges,
      agentChanges |-> agentChanges]

\* a StateManager that drops the hydrated snapshot
hydrateSharedStateOff(state) == buildDefaultSharedState

hydrateSharedState(state) == Merge(buildDefaultSharedState, state)

initializeAgentState(ags, agentId) ==
  IF agentId \in DOMAIN ags THEN ags ELSE Put(ags, agentId, buildDefaultAgentState)

removeAgentState(ags, agentId) == Remove(ags, agentId)

\* ------------------------------------------------------------------------
\* Persistence, for a config cfg = [name, version, items: key -> [scope, persist]]
\* ------------------------------------------------------------------------
MainConfig ==
  [name |-> StoreName, version |-> StoreVersion,
   items |-> [k \in ConfigKeys |-> [scope |-> Scope(k), persist |-> Persist(k)]]]

\* a persist() that puts every state item it is given into the tier
tierUpdatesAll(cfg, state, tier) ==
  LET ks == {k \in DOMAIN state : k \in DOMAIN cfg.items}
      sks == {buildKeyFor(cfg.name, cfg.version, k) : k \in ks}
  IN [sk \in sks |->
        state[CHOOSE k \in ks : buildKeyFor(cfg.name, cfg.version, k) = sk]]

\* the updates persist() collects for one tier
tierUpdates(cfg, state, tier) ==
  LET ks == {k \in DOMAIN state : k \in DOMAIN cfg.items /\ cfg.items[k].persist = tier}
      sks == {buildKeyFor(cfg.name, cfg.version, k) : k \in ks}
  IN [sk \in sks |->
        state[CHOOSE k \in ks : buildKeyFor(cfg.name, cfg.version, k) = sk]]

\* Persistence.hydrate: the partial built from both tiers
hydrateFrom(cfg, loc, ses) ==
  LET combined == Merge(loc, ses)
      ks == {k \in DOMAIN cfg.items :
               /\ cfg.items[k].scope # "agent"
               /\ cfg.items[k].persist # "none"
               /\ buildKeyFor(cfg.name, cfg.version, k) \in DOMAIN combined}
  IN [k \in ks |-> combined[buildKeyFor(cfg.name, cfg.version, k)]]

\* a clearAll that removes the metadata record only
keysToRemoveMetaOnly(cfg) == {getMetaKeyFor(cfg.name)}

\* a clearAll that removes the keys of every version of the name
keysToRemoveAnyVersion(cfg) ==
  {buildKeyFor(cfg.name, v, k) :
     v \in {1, 11}, k \in {x \in DOMAIN cfg.items : cfg.items[x].persist # "none"}}
    \cup {getMetaKeyFor(cfg.name)}

\* Persistence.clearAll: keysToRemove
keysToRemove(cfg) ==
  {buildKeyFor(cfg.name, cfg.version, k) :
     k \in {x \in DOMAIN cfg.items : cfg.items[x].persist # "none"}}
    \cup {getMetaKeyFor(cfg.name)}

RemoveKeys(f, ks) == [x \in (DOMAIN f) \ ks |-> f[x]]

\* updateMetadata: createdAt is kept when a record exists
newMeta(cfg, existing) ==
  [version |-> cfg.version,
   createdAt |-> IF existing = NoMeta THEN "now" ELSE existing.createdAt]

\* ------------------------------------------------------------------------
\* Messages and porter.post
\* ------------------------------------------------------------------------
SetStateMsg(state) == [action |-> "setState", state |-> state]

RpcMsg(id, actionName, arg) ==
  [action |-> "rpc", callId |-> id, actionName |-> actionName, args |-> arg]

InitialStateMsg(state, info) ==
  [action |-> "initialState", state |-> state, info |-> info]

StateUpdateMsg(changes) == [action |-> "stateUpdate", state |-> changes]

\* the payload Store.setupRpcHandlers builds: actionName, result|error, success
StoreRpcResultMsg(actionName, success, result, error) ==
  [action |-> "rpcResult", callId |-> Undefined, actionName |-> actionName,
   success |-> success, result |-> result, error |-> error]

\* porter.getAgentById(id) is defined while the connection is up
porterAgents == {a \in Agents : link[a] \in {"connected", "ready"}}

\* porter.post(message, target): queued for a connection that is up
Post(q, target, msg) ==
  IF target \in porterAgents
  THEN [q EXCEPT ![target] = Append(@, msg)]
  ELSE q

RECURSIVE PostAll(_, _, _)
PostAll(q, targets, msg) ==
  IF targets = {} THEN q
  ELSE LET t == CHOOSE x \in targets : TRUE
       IN PostAll(Post(q, t, msg), targets \ {t}, msg)

\* a notification that is always broadcast
notifyTargetsAll(agentId) == registry

\* notifyStateChange: the connections the stateUpdate is posted to
notifyTargets(agentId) ==
  IF agentId # NoAgent
  THEN (IF agentId \in porterAgents THEN {agentId} ELSE {})
  ELSE registry

\* the listeners whose call throws
Throwing == {"bad"}

ListenerError == <<"listener failed">>

\* notifyStateChange: stateChangeListeners.forEach(listener => listener(...)) is
\* ended by the first listener that throws
listenerThrows ==
  \E i \in 1..Len(stateChangeListeners) : stateChangeListeners[i] \in Throwing

\* notifyStateChange: the number of listeners invoked
listenersRun ==
  IF listenerThrows
  THEN CHOOSE i \in 1..Len(stateChangeListeners) :
         /\ stateChangeListeners[i] \in Throwing
         /\ \A j \in 1..(i - 1) : stateChangeListeners[j] \notin Throwing
  ELSE Len(stateChangeListeners)

\* notifyStateChange: the queues after its posts; none is made once a listener
\* has thrown
\* a notifyStateChange that posts nothing
notifyStateChangeOff(q, changes, agentId) == q

notifyStateChange(q, changes, agentId) ==
  IF listenerThrows THEN q
  ELSE PostAll(q, notifyTargets(agentId), StateUpdateMsg(changes))

Room(q) == \A a \in Agents : Len(q[a]) < MaxQueue

\* ------------------------------------------------------------------------
\* Actions of the config and ActionExecutor
\* ------------------------------------------------------------------------
\* setCount:  async (ctx, value) => { await ctx.setState({count: value}); return value }
\* fetchData: async (ctx, value) => { await api(); await ctx.setState({agentData: value});
\*                                    return value }
\* setPositive: {handler: async (ctx, value) => value,
\*               validate: (value) => { if (value < 0) throw new Error('Must be positive') }}
\* fail:      async () => { throw new Error('boom') }
\* slowCount: async (ctx, value) => { await api(); await ctx.setState({count: value});
\*                                    return value }
\* setThenFail: async (ctx, value) => { await ctx.setState({count: value});
\*                                      throw new Error('boom') }
ActionNames == {"setCount", "fetchData"}

CallNames == ActionNames \cup {"nope"}

\* the names config.actions declares when it declares all of the above
AllActions ==
  [declared |-> TRUE,
   names |-> ActionNames \cup {"setPositive", "fail", "slowCount", "setThenFail"}]

\* config.actions as createConfig accepts it: absent, empty, or some definitions
ActionConfigs ==
  {[declared |-> FALSE, names |-> {}], [declared |-> TRUE, names |-> {}], AllActions}

\* names every object inherits from Object.prototype
Inherited == {"toString"}

\* actions[actionName]: a definition, a member of Object.prototype, or undefined
lookup(name) ==
  IF name \in configActions.names THEN "definition"
  ELSE IF name \in Inherited THEN "inherited"
  ELSE "undefined"

\* a validator that accepts everything
validateAll(name, arg) == NoError

\* actionDef.validate(...args): what it throws, if it is declared and throws
validate(name, arg) ==
  IF name = "setPositive" /\ arg < 0 THEN <<"Must be positive">> ELSE NoError

DestroyedError == <<"Store has been destroyed">>

\* ActionError: `Action "${actionName}" failed in store "${storeName}": ${reason}`
ActionError(actionName, reason) == <<"Action failed", actionName>> \o reason

\* ValidationError: `Validation failed for action "${actionName}" in store ...: ${reason}`
ValidationError(actionName, reason) == <<"Validation failed", actionName>> \o reason

\* one execute() call: how often it called the validator and the handler
Exec(a, name, arg, validatorCalls, handlerCalls) ==
  [agent |-> a, name |-> name, arg |-> arg, validatorCalls |-> validatorCalls,
   handlerCalls |-> handlerCalls]

NoExec == [agent |-> NoAgent, name |-> None, value |-> 0]

\* an rpc handler that posts its result to every registered connection
FinishExecToAll(q, exec, success, result, error) ==
  IF exec.agent = NoAgent THEN q
  ELSE PostAll(q, registry, StoreRpcResultMsg(exec.name, success, result, error))

\* the rpc handler's post once execute() has settled
FinishExec(q, exec, success, result, error) ==
  IF exec.agent = NoAgent THEN q
  ELSE Post(q, exec.agent, StoreRpcResultMsg(exec.name, success, result, error))

\* ------------------------------------------------------------------------
\* Store.setState
\* ------------------------------------------------------------------------
\* a Store whose lifecycle check always passes
assertNotDestroyedOff == TRUE

assertNotDestroyed == ~isDestroyed

\* every key of the partial is held and already has the given value
IsNoop(state, agentId) ==
  \A k \in DOMAIN state :
    \/ k \in SharedKeys /\ sharedState[k] = state[k]
    \/ k \in AgentKeys /\ agentId # NoAgent /\ getAgentState(agentId)[k] = state[k]

SetRecord(state, agentId, noop, at, listenerCalls, targets, writes, threw) ==
  [state |-> state, agentId |-> agentId, noop |-> noop, at |-> at,
   listenerCalls |-> listenerCalls, targets |-> targets, writes |-> writes,
   threw |-> threw]

Card(f) == IF DOMAIN f = {} THEN 0 ELSE 1

\* the handler awaiting ctx.setState returns its value, or rejects with what
\* notifyStateChange threw
Settle(q, exec) ==
  IF listenerThrows
  THEN FinishExec(q, exec, FALSE, 0, ActionError(exec.name, ListenerError))
  ELSE IF exec.name = "setThenFail"
  THEN FinishExec(q, exec, FALSE, 0, ActionError(exec.name, <<"boom">>))
  ELSE FinishExec(q, exec, TRUE, exec.value, NoError)

\* Store.setState(state, agentId) of a Store that is not destroyed, called on
\* behalf of exec (an action handler awaiting it, or NoExec), the queues being q
SetStateFlow(state, agentId, exec, q) ==
  LET r == SM_setState(state, agentId)
      lu == tierUpdates(MainConfig, r.sharedChanges, "local")
      su == tierUpdates(MainConfig, r.sharedChanges, "session")
      waits == DOMAIN lu # {} \/ DOMAIN su # {}
      noop == IsNoop(state, agentId)
  IN /\ sharedState' = r.shared
     /\ agentStates' = r.agents
     /\ written' = written \cup DOMAIN r.sharedChanges
     /\ IF waits
        THEN /\ inflight' = Append(inflight,
                  [kind |-> "persist", local |-> lu, session |-> su,
                   changes |-> state, agentId |-> agentId, exec |-> exec,
                   noop |-> noop, at |-> hydPc])
             /\ toAgent' = q
             /\ lastSet' = lastSet
        ELSE /\ inflight' = inflight
             /\ toAgent' = Settle(notifyStateChange(q, state, agentId), exec)
             /\ lastSet' = SetRecord(state, agentId, noop, hydPc, listenersRun,
                              IF listenerThrows THEN {} ELSE notifyTargets(agentId),
                              0, listenerThrows)

CanAwait == Len(inflight) < MaxQueue

\* store.setState(state): a store-initiated write
StoreSetState(state) ==
  /\ Input
  /\ CanAwait /\ Room(toAgent)
  /\ lastCall' = [op |-> "setState", threw |-> ~assertNotDestroyed]
  /\ IF assertNotDestroyed
     THEN SetStateFlow(state, NoAgent, NoExec, toAgent)
     ELSE UNCHANGED <<sharedState, agentStates, inflight, toAgent, lastSet, written>>
  /\ UNCHANGED <<isDestroyed, registry, initializedAgents, stateChangeListeners,
                 agentConnectListeners, agentDisconnectListeners, hydPc, hydrated,
                 execs, storageVars, link, toStore, agentVars, configActions, lastExec, snapAt, stores>>

\* store.setState(state, agentId): the public overload naming a connection
StoreSetStateFor(state, agentId) ==
  /\ Input
  /\ CanAwait /\ Room(toAgent)
  /\ lastCall' = [op |-> "setState", threw |-> ~assertNotDestroyed]
  /\ IF assertNotDestroyed
     THEN SetStateFlow(state, agentId, NoExec, toAgent)
     ELSE UNCHANGED <<sharedState, agentStates, inflight, toAgent, lastSet, written>>
  /\ UNCHANGED <<isDestroyed, registry, initializedAgents, stateChangeListeners,
                 agentConnectListeners, agentDisconnectListeners, hydPc, hydrated,
                 execs, storageVars, link, toStore, agentVars, configActions, lastExec, snapAt, stores>>

\* store.setAgentState(agentId, state)
StoreSetAgentState(agentId, state) ==
  /\ Input
  /\ Room(toAgent)
  /\ lastCall' = [op |-> "setAgentState",
                   threw |-> ~assertNotDestroyed \/ listenerThrows]
  /\ IF assertNotDestroyed
     THEN /\ agentStates' = setAgentStateOf(agentStates, agentId, state)
          /\ toAgent' = notifyStateChange(toAgent, state, agentId)
     ELSE UNCHANGED <<agentStates, toAgent>>
  /\ UNCHANGED <<isDestroyed, sharedState, registry, initializedAgents,
                 stateChangeListeners, agentConnectListeners,
                 agentDisconnectListeners, asyncVars, storageVars, link, toStore,
                 agentVars, lastSet, written, configActions, lastExec, snapAt, stores>>

\* the awaited storage.set of a setState call completes; notifyStateChange follows
PersistDone ==
  /\ inflight # <<>>
  /\ Head(inflight).kind = "persist"
  /\ Room(toAgent)
  /\ LET h == Head(inflight)
         writes == Card(h.local) + Card(h.session)
     IN /\ inflight' = Tail(inflight)
        /\ local' = Merge(local, h.local)
        /\ session' = Merge(session, h.session)
        /\ IF assertNotDestroyed
           THEN /\ toAgent' = Settle(notifyStateChange(toAgent, h.changes, h.agentId),
                                      h.exec)
                /\ lastSet' = SetRecord(h.changes, h.agentId, h.noop, h.at,
                                 listenersRun,
                                 IF listenerThrows THEN {} ELSE notifyTargets(h.agentId),
                                 writes, listenerThrows)
           ELSE /\ toAgent' = FinishExec(toAgent, h.exec, FALSE, 0,
                                 ActionError(h.exec.name, DestroyedError))
                /\ lastSet' = SetRecord(h.changes, h.agentId, h.noop, h.at, 0, {},
                                 writes, TRUE)
  /\ UNCHANGED <<storeVars, hydPc, hydrated, execs, link, toStore, agentVars,
                 lastCall, written, lastExec, snapAt, stores, ops>>

\* what browser.storage rejects a set() with, e.g. when the quota is exceeded
StorageError == <<"QUOTA_BYTES quota exceeded">>

\* the awaited storage.set of a setState call rejects: persist() rejects, and
\* Store.setState rejects before it reaches notifyStateChange
PersistFail ==
  /\ inflight # <<>>
  /\ Head(inflight).kind = "persist"
  /\ Room(toAgent)
  /\ LET h == Head(inflight)
     IN /\ inflight' = Tail(inflight)
        /\ toAgent' = FinishExec(toAgent, h.exec, FALSE, 0,
                                 ActionError(h.exec.name, StorageError))
        /\ lastSet' = SetRecord(h.changes, h.agentId, h.noop, h.at, 0, {}, 0, TRUE)
  /\ UNCHANGED <<storeVars, hydPc, hydrated, execs, storageVars, link, toStore,
                 agentVars, lastCall, written, lastExec, snapAt, stores, ops>>

\* ------------------------------------------------------------------------
\* Store: the rest of the public API
\* ------------------------------------------------------------------------
Listeners == {"l1"}

StoreGetState ==
  /\ Input
  /\ lastCall' = [op |-> "getState", threw |-> ~assertNotDestroyed]
  /\ UNCHANGED <<storeVars, asyncVars, storageVars, portVars, agentVars, lastSet, written, lastExec, snapAt, stores>>

StoreGetAgentState(agentId) ==
  /\ Input
  /\ lastCall' = [op |-> "getAgentState", threw |-> ~assertNotDestroyed]
  /\ UNCHANGED <<storeVars, asyncVars, storageVars, portVars, agentVars, lastSet, written, lastExec, snapAt, stores>>

StoreGetAgents ==
  /\ Input
  /\ lastCall' = [op |-> "getAgents", threw |-> ~assertNotDestroyed]
  /\ UNCHANGED <<storeVars, asyncVars, storageVars, portVars, agentVars, lastSet, written, lastExec, snapAt, stores>>

StoreSubscribe(l) ==
  /\ Input
  /\ lastCall' = [op |-> "subscribe", threw |-> ~assertNotDestroyed]
  /\ stateChangeListeners' =
       IF assertNotDestroyed /\ \A i \in 1..Len(stateChangeListeners) :
                                   stateChangeListeners[i] # l
       THEN Append(stateChangeListeners, l)
       ELSE stateChangeListeners
  /\ UNCHANGED <<isDestroyed, sharedState, agentStates, registry, initializedAgents,
                 agentConnectListeners, agentDisconnectListeners, asyncVars,
                 storageVars, portVars, agentVars, lastSet, written, configActions, lastExec, snapAt, stores>>

StoreOnAgentConnect(l) ==
  /\ Input
  /\ lastCall' = [op |-> "onAgentConnect", threw |-> ~assertNotDestroyed]
  /\ agentConnectListeners' =
       IF assertNotDestroyed THEN agentConnectListeners \cup {l}
       ELSE agentConnectListeners
  /\ UNCHANGED <<isDestroyed, sharedState, agentStates, registry, initializedAgents,
                 stateChangeListeners, agentDisconnectListeners, asyncVars,
                 storageVars, portVars, agentVars, lastSet, written, configActions, lastExec, snapAt, stores>>

StoreOnAgentDisconnect(l) ==
  /\ Input
  /\ lastCall' = [op |-> "onAgentDisconnect", threw |-> ~assertNotDestroyed]
  /\ agentDisconnectListeners' =
       IF assertNotDestroyed THEN agentDisconnectListeners \cup {l}
       ELSE agentDisconnectListeners
  /\ UNCHANGED <<isDestroyed, sharedState, agentStates, registry, initializedAgents,
                 stateChangeListeners, agentConnectListeners, asyncVars,
                 storageVars, portVars, agentVars, lastSet, written, configActions, lastExec, snapAt, stores>>

\* store.clear(): stateManager.clear(), then await persistence.clearAll()
StoreClear ==
  /\ Input
  /\ CanAwait
  /\ lastCall' = [op |-> "clear", threw |-> ~assertNotDestroyed]
  /\ IF assertNotDestroyed
     THEN /\ sharedState' = buildDefaultSharedState
          /\ agentStates' = [a \in {} |-> buildDefaultAgentState]
          /\ inflight' = Append(inflight, [kind |-> "clearAll", notify |-> TRUE])
          /\ written' = written \cup SharedKeys
     ELSE UNCHANGED <<sharedState, agentStates, inflight, written>>
  /\ UNCHANGED <<isDestroyed, registry, initializedAgents, stateChangeListeners,
                 agentConnectListeners, agentDisconnectListeners, hydPc, hydrated,
                 execs, storageVars, portVars, agentVars, lastSet, configActions, lastExec, snapAt, stores>>

\* the storage.remove calls of a clearAll complete; clear() then notifies with {}
ClearAllDone ==
  /\ inflight # <<>>
  /\ Head(inflight).kind = "clearAll"
  /\ Room(toAgent)
  /\ inflight' = Tail(inflight)
  /\ local' = RemoveKeys(local, keysToRemove(MainConfig))
  /\ session' = RemoveKeys(session, keysToRemove(MainConfig))
  /\ toAgent' = IF Head(inflight).notify /\ assertNotDestroyed
                THEN notifyStateChange(toAgent, Empty, NoAgent)
                ELSE toAgent
  /\ UNCHANGED <<storeVars, hydPc, hydrated, execs, link, toStore, agentVars,
                 obsVars, stores, ops>>

\* store.destroy(options)
StoreDestroy(clearPersisted) ==
  /\ Input
  /\ ~isDestroyed
  /\ clearPersisted => CanAwait
  /\ isDestroyed' = TRUE
  /\ stateChangeListeners' = <<>>
  /\ agentConnectListeners' = {}
  /\ agentDisconnectListeners' = {}
  /\ registry' = {}
  /\ inflight' = IF clearPersisted
                 THEN Append(inflight, [kind |-> "clearAll", notify |-> FALSE])
                 ELSE inflight
  /\ lastCall' = [op |-> "destroy", threw |-> FALSE]
  /\ UNCHANGED <<sharedState, agentStates, initializedAgents, hydPc, hydrated, execs,
                 storageVars, portVars, agentVars, lastSet, written, configActions, lastExec, snapAt, stores>>

\* ------------------------------------------------------------------------
\* Store.hydrate, started by the constructor
\* ------------------------------------------------------------------------
\* Persistence.hydrate: both storage.get(null) calls have answered
HydrateRead ==
  /\ hydPc = "read"
  /\ hydrated' = [state |-> hydrateFrom(MainConfig, local, session), meta |-> NoMeta]
  /\ hydPc' = "metaGet"
  /\ UNCHANGED <<storeVars, inflight, execs, storageVars, portVars, agentVars,
                 obsVars, stores, ops>>

\* updateMetadata: storage.local.get(metaKey) has answered
HydrateMetaGet ==
  /\ hydPc = "metaGet"
  /\ hydrated' = [hydrated EXCEPT !.meta =
                    IF getMetaKey \in DOMAIN local THEN local[getMetaKey] ELSE NoMeta]
  /\ hydPc' = "metaSet"
  /\ UNCHANGED <<storeVars, inflight, execs, storageVars, portVars, agentVars,
                 obsVars, stores, ops>>

\* updateMetadata: storage.local.set({[metaKey]: meta}) has completed
HydrateMetaSet ==
  /\ hydPc = "metaSet"
  /\ local' = Put(local, getMetaKey, newMeta(MainConfig, hydrated.meta))
  /\ hydPc' = "apply"
  /\ UNCHANGED <<storeVars, hydrated, inflight, execs, session, portVars, agentVars,
                 obsVars, stores, ops>>

\* Store.hydrate resumes with hydratedState
HydrateApply ==
  /\ hydPc = "apply"
  /\ sharedState' = IF DOMAIN hydrated.state # {}
                    THEN hydrateSharedState(hydrated.state) ELSE sharedState
  /\ hydPc' = "done"
  /\ UNCHANGED <<isDestroyed, agentStates, registry, initializedAgents,
                 stateChangeListeners, agentConnectListeners,
                 agentDisconnectListeners, hydrated, inflight, execs, storageVars,
                 portVars, agentVars, obsVars, configActions, stores, ops>>

\* ------------------------------------------------------------------------
\* Agent: message handlers
\* ------------------------------------------------------------------------
\* a state built from something else than the config's defaults
buildDefaultStateOther == [k \in ConfigKeys |-> 5]

buildDefaultState == [k \in ConfigKeys |-> Default(k)]

\* a promise returned by actions.<name>(); active records how it was issued
Pending == [status |-> "pending", result |-> 0, error |-> NoError, active |-> FALSE]

NotReady == [resolved |-> FALSE, state |-> Empty]

\* a handler that settles whatever is pending, whichever id the response bears
pendingGetAny(a, id) == pendingCalls[a]

\* pendingCalls.get(id): the entries of Agent a the rpcResult handler settles
pendingGet(a, id) == IF id \in pendingCalls[a] THEN {id} ELSE {}

\* what one Agent has registered: subscribers are {keys, callback} records
\* (filtered tells whether keys were given), the others are callbacks; timers
\* holds, in the order they were set, the callbacks onReady passed to setTimeout
\* subCount numbers the subscriber objects subscribe() creates. whileReady and
\* notified are history: the onReady callbacks whose every registration found
\* the Agent connected, and the subscribers the last notifySubscribers invoked
NoCallbacks ==
  [subscribers |-> {}, readyCallbacks |-> {}, disconnectCallbacks |-> {},
   reconnectCallbacks |-> {}, timers |-> <<>>, whileReady |-> {},
   subCount |-> 0, notified |-> {}]

\* const subscriber = { keys, callback }: a new object on every subscribe()
Subscription(sub, id) ==
  [filtered |-> sub.filtered, keys |-> sub.keys, callback |-> sub.callback, id |-> id]

\* one invocation of a registered callback; dead tells whether disconnect()
\* had been called on the Agent by then
Invocation(a, kind, cb, by) ==
  [kind |-> kind, callback |-> cb, by |-> by, dead |-> isDisconnected[a]]

\* notifySubscribers(changes): the subscribers whose callback runs
\* a notifySubscribers that ignores subscriber.keys
notifySubscribersAll(a, changes) == callbacks[a].subscribers

notifySubscribers(a, changes) ==
  {sub \in callbacks[a].subscribers :
     ~sub.filtered \/ sub.keys \cap DOMAIN changes # {}}

\* the invocations notifySubscribers(changes) makes
subscriberCalls(a, changes, by) ==
  {Invocation(a, "subscriber", sub.callback, by) : sub \in notifySubscribers(a, changes)}

\* earlyWrites once Agent a's state has taken keys from a setState call or a
\* stateUpdate message
EarlyWrite(a, keys, by) ==
  [earlyWrites EXCEPT ![a] =
     IF readyValue[a].resolved THEN @
     ELSE @ \cup {[key |-> k, by |-> by] : k \in keys}]

\* a ready promise that every readyResolve call settles anew
readyResolveAgain(rv, state) == [resolved |-> TRUE, state |-> state]

\* this.readyResolve(this._state): a promise takes its first resolution only
readyResolve(rv, state) ==
  IF rv.resolved THEN rv ELSE [resolved |-> TRUE, state |-> state]

\* porter.on({initialState, stateUpdate, rpcResult}) of Agent a, given msg
AgentHandle(a, msg) ==
  CASE msg.action = "initialState" ->
         /\ cache' = [cache EXCEPT ![a] = msg.state]
         /\ agentInfo' = [agentInfo EXCEPT ![a] = msg.info]
         /\ isConnected' = [isConnected EXCEPT ![a] = TRUE]
         /\ readyValue' = [readyValue EXCEPT ![a] = readyResolve(@, msg.state)]
         /\ invoked' = [invoked EXCEPT ![a] =
                          @ \cup {Invocation(a, "ready", cb, "message") :
                                    cb \in callbacks[a].readyCallbacks}
                            \cup subscriberCalls(a, msg.state, "message")]
         /\ callbacks' = [callbacks EXCEPT ![a].notified =
                            {sub.id : sub \in notifySubscribers(a, msg.state)}]
         /\ UNCHANGED <<isDisconnected, callId, pendingCalls, promises,
                        lateCalls, earlyWrites>>
    [] msg.action = "stateUpdate" ->
         /\ cache' = [cache EXCEPT ![a] = Merge(@, msg.state)]
         /\ invoked' = [invoked EXCEPT ![a] =
                          @ \cup subscriberCalls(a, msg.state, "message")]
         /\ earlyWrites' = EarlyWrite(a, DOMAIN msg.state, "stateUpdate")
         /\ callbacks' = [callbacks EXCEPT ![a].notified =
                            {sub.id : sub \in notifySubscribers(a, msg.state)}]
         /\ UNCHANGED <<agentInfo, isConnected, isDisconnected, readyValue, callId,
                        pendingCalls, promises, lateCalls>>
    [] msg.action = "rpcResult" ->
         /\ LET hit == pendingGet(a, msg.callId)
            IN /\ pendingCalls' = [pendingCalls EXCEPT ![a] = @ \ hit]
               /\ promises' = [promises EXCEPT ![a] =
                     [id \in DOMAIN @ |->
                        IF id \in hit
                        THEN [@[id] EXCEPT !.status = IF msg.success THEN "resolved"
                                                     ELSE "rejected",
                                          !.result = msg.result,
                                          !.error = msg.error]
                        ELSE @[id]]]
         /\ UNCHANGED <<cache, agentInfo, isConnected, isDisconnected, readyValue,
                        callId, callbacks, invoked, lateCalls, earlyWrites>>

\* porter.onDisconnect handler of Agent a
AgentOnDisconnect(a) ==
  /\ isConnected' = [isConnected EXCEPT ![a] = FALSE]
  /\ invoked' = [invoked EXCEPT ![a] =
                   @ \cup {Invocation(a, "disconnect", cb, "event") :
                             cb \in callbacks[a].disconnectCallbacks}]
  /\ UNCHANGED <<cache, agentInfo, isDisconnected, readyValue, callId, pendingCalls,
                 promises, callbacks, lateCalls, earlyWrites>>

\* porter.onReconnect handler of Agent a
AgentOnReconnect(a, info) ==
  /\ agentInfo' = [agentInfo EXCEPT ![a] = info]
  /\ isConnected' = [isConnected EXCEPT ![a] = TRUE]
  /\ invoked' = [invoked EXCEPT ![a] =
                   @ \cup {Invocation(a, "reconnect", cb, "event") :
                             cb \in callbacks[a].reconnectCallbacks}]
  /\ UNCHANGED <<cache, isDisconnected, readyValue, callId, pendingCalls, promises,
                 callbacks, lateCalls, earlyWrites>>

\* a timer set by onReady fires: callback(this._state)
TimerFire(a) ==
  /\ callbacks[a].timers # <<>>
  /\ callbacks' = [callbacks EXCEPT ![a].timers = Tail(@)]
  /\ invoked' = [invoked EXCEPT ![a] =
                   @ \cup {Invocation(a, "ready", Head(callbacks[a].timers), "timer")}]
  /\ UNCHANGED <<storeVars, asyncVars, storageVars, portVars, cache, agentInfo,
                 isConnected, isDisconnected, readyValue, callId, pendingCalls,
                 promises, lateCalls, earlyWrites, obsVars, stores, ops>>

\* ------------------------------------------------------------------------
\* Agent: public API
\* ------------------------------------------------------------------------
assertNotDisconnected(a) == ~isDisconnected[a]

\* the call op of Agent a ends in the throw of assertNotDisconnected
Thrown(a, op) ==
  /\ lateCalls' = [lateCalls EXCEPT ![a] = @ \cup {[op |-> op, threw |-> TRUE]}]
  /\ UNCHANGED <<earlyWrites, storeVars, asyncVars, storageVars, portVars, cache, agentInfo,
                 isConnected, isDisconnected, readyValue, callId, pendingCalls,
                 promises, callbacks, invoked, obsVars, stores>>

\* the call op of Agent a returns
Returned(a, op) ==
  lateCalls' = [lateCalls EXCEPT ![a] =
                  IF isDisconnected[a] THEN @ \cup {[op |-> op, threw |-> FALSE]}
                  ELSE @]

\* nothing is in flight: no message, no awaited storage call, no running handler
Quiescent ==
  /\ inflight = <<>>
  /\ execs = <<>>
  /\ \A a \in Agents : toStore[a] = <<>> /\ toAgent[a] = <<>>

\* Agent a has received its initialState and its connection is up
Ready(a) == readyValue[a].resolved /\ isConnected[a] /\ ~isDisconnected[a]

\* a call issued by a Ready Agent, over a connection that is up, to a Store that
\* is not destroyed
CallIsActive(a) == Ready(a) /\ link[a] = "ready" /\ ~isDestroyed

\* what porter.post of Agent a does to its outgoing queue
AgentPost(a, msg) ==
  IF link[a] = "closed" THEN toStore
  ELSE [toStore EXCEPT ![a] = Append(@, msg)]

\* agent.ready()
Agent_ready(a) ==
  /\ Input
  /\ IF assertNotDisconnected(a)
     THEN /\ Returned(a, "ready")
          /\ UNCHANGED <<earlyWrites, storeVars, asyncVars, storageVars, portVars, cache,
                         agentInfo, isConnected, isDisconnected, readyValue, callId,
                         pendingCalls, promises, callbacks, invoked, obsVars, stores>>
     ELSE Thrown(a, "ready")

\* agent.onReady(callback)
Agent_onReady(a, cb) ==
  /\ Input
  /\ IF assertNotDisconnected(a)
     THEN /\ callbacks' = [callbacks EXCEPT
                             ![a].timers = IF isConnected[a] THEN Append(@, cb) ELSE @,
                             ![a].readyCallbacks = @ \cup {cb},
                             ![a].whileReady =
                                IF ~isConnected[a] THEN @ \ {cb}
                                ELSE IF cb \in callbacks[a].readyCallbacks THEN @
                                ELSE @ \cup {cb}]
          /\ Returned(a, "onReady")
          /\ UNCHANGED <<earlyWrites, storeVars, asyncVars, storageVars, portVars, cache,
                         agentInfo, isConnected, isDisconnected, readyValue, callId,
                         pendingCalls, promises, invoked, obsVars, stores>>
     ELSE Thrown(a, "onReady")

\* agent.getState(), and agent.state which calls it
Agent_getState(a) ==
  /\ Input
  /\ IF assertNotDisconnected(a)
     THEN /\ Returned(a, "getState")
          /\ UNCHANGED <<earlyWrites, storeVars, asyncVars, storageVars, portVars, cache,
                         agentInfo, isConnected, isDisconnected, readyValue, callId,
                         pendingCalls, promises, callbacks, invoked, obsVars, stores>>
     ELSE Thrown(a, "getState")

\* agent.subscribe(callback) and agent.subscribe(keys, callback)
Agent_subscribe(a, sub) ==
  /\ Input
  /\ IF assertNotDisconnected(a)
     THEN /\ callbacks' = [callbacks EXCEPT
                             ![a].subscribers =
                                @ \cup {Subscription(sub, callbacks[a].subCount)},
                             ![a].subCount = @ + 1]
          /\ Returned(a, "subscribe")
          /\ UNCHANGED <<earlyWrites, storeVars, asyncVars, storageVars, portVars, cache,
                         agentInfo, isConnected, isDisconnected, readyValue, callId,
                         pendingCalls, promises, invoked, obsVars, stores>>
     ELSE Thrown(a, "subscribe")

\* the function subscribe() returned for subscriber id: it checks nothing
Agent_unsubscribe(a, id) ==
  /\ Input
  /\ id < callbacks[a].subCount
  /\ callbacks' = [callbacks EXCEPT ![a].subscribers = {sub \in @ : sub.id # id}]
  /\ UNCHANGED <<storeVars, asyncVars, storageVars, portVars, cache, agentInfo,
                 isConnected, isDisconnected, readyValue, callId, pendingCalls,
                 promises, invoked, lateCalls, earlyWrites, obsVars, stores>>

\* agent.onDisconnect(callback)
Agent_onDisconnect(a, cb) ==
  /\ Input
  /\ IF assertNotDisconnected(a)
     THEN /\ callbacks' = [callbacks EXCEPT ![a].disconnectCallbacks = @ \cup {cb}]
          /\ Returned(a, "onDisconnect")
          /\ UNCHANGED <<earlyWrites, storeVars, asyncVars, storageVars, portVars, cache,
                         agentInfo, isConnected, isDisconnected, readyValue, callId,
                         pendingCalls, promises, invoked, obsVars, stores>>
     ELSE Thrown(a, "onDisconnect")

\* agent.onReconnect(callback)
Agent_onReconnect(a, cb) ==
  /\ Input
  /\ IF assertNotDisconnected(a)
     THEN /\ callbacks' = [callbacks EXCEPT ![a].reconnectCallbacks = @ \cup {cb}]
          /\ Returned(a, "onReconnect")
          /\ UNCHANGED <<earlyWrites, storeVars, asyncVars, storageVars, portVars, cache,
                         agentInfo, isConnected, isDisconnected, readyValue, callId,
                         pendingCalls, promises, invoked, obsVars, stores>>
     ELSE Thrown(a, "onReconnect")

\* agent.setState(state)
AgentSetState(a, state) ==
  /\ Input
  /\ IF assertNotDisconnected(a)
     THEN /\ Len(toStore[a]) < MaxQueue
          /\ cache' = [cache EXCEPT ![a] = Merge(@, state)]
          /\ toStore' = AgentPost(a, SetStateMsg(state))
          /\ Returned(a, "setState")
          /\ earlyWrites' = EarlyWrite(a, DOMAIN state, "setState")
          /\ UNCHANGED <<storeVars, asyncVars, storageVars, link, toAgent, agentInfo,
                         isConnected, isDisconnected, readyValue, callId,
                         pendingCalls, promises, callbacks, invoked, obsVars, stores>>
     ELSE Thrown(a, "setState")

\* agent.actions.<actionName>(arg)
AgentCall(a, actionName, arg) ==
  /\ Input
  /\ IF assertNotDisconnected(a)
     THEN /\ callId[a] < MaxCalls
          /\ Len(toStore[a]) < MaxQueue
          /\ callId' = [callId EXCEPT ![a] = @ + 1]
          /\ pendingCalls' = [pendingCalls EXCEPT ![a] = @ \cup {Digits(callId[a])}]
          /\ promises' = [promises EXCEPT ![a] =
                            Put(@, Digits(callId[a]),
                                [Pending EXCEPT !.active = CallIsActive(a)])]
          /\ toStore' = AgentPost(a, RpcMsg(Digits(callId[a]), actionName, arg))
          /\ Returned(a, "actions")
          /\ UNCHANGED <<earlyWrites, storeVars, asyncVars, storageVars, link, toAgent, cache,
                         agentInfo, isConnected, isDisconnected, readyValue,
                         callbacks, invoked, obsVars, stores>>
     ELSE Thrown(a, "actions")

\* agent.disconnect()
AgentDisconnect(a) ==
  /\ Input
  /\ ~isDisconnected[a]
  /\ isDisconnected' = [isDisconnected EXCEPT ![a] = TRUE]
  /\ isConnected' = [isConnected EXCEPT ![a] = FALSE]
  /\ callbacks' = [callbacks EXCEPT ![a] =
                      [NoCallbacks EXCEPT !.timers = callbacks[a].timers,
                                          !.subCount = callbacks[a].subCount]]
  /\ UNCHANGED <<storeVars, asyncVars, storageVars, portVars, cache, agentInfo,
                 readyValue, callId, pendingCalls, promises, invoked, lateCalls, earlyWrites,
                 obsVars, stores>>

\* the transport hands Agent a the next message from the Store
AgentReceive(a) ==
  /\ toAgent[a] # <<>>
  /\ link[a] # "closed"
  /\ toAgent' = [toAgent EXCEPT ![a] = Tail(@)]
  /\ AgentHandle(a, Head(toAgent[a]))
  /\ UNCHANGED <<storeVars, asyncVars, storageVars, link, toStore, obsVars, stores, ops>>

\* ------------------------------------------------------------------------
\* Store: transport events (setupMessageHandlers, setupRpcHandlers)
\* ------------------------------------------------------------------------
\* porter.onConnect
Connect(a) ==
  /\ link[a] = "idle"
  /\ link' = [link EXCEPT ![a] = "connected"]
  /\ registry' = registry \cup {a}
  /\ agentStates' = initializeAgentState(agentStates, a)
  /\ UNCHANGED <<isDestroyed, sharedState, initializedAgents, stateChangeListeners,
                 agentConnectListeners, agentDisconnectListeners, asyncVars,
                 storageVars, toStore, toAgent, agentVars, obsVars, configActions, stores, ops>>

\* a Store that keeps no record of the connections it has initialized
alreadyInitializedNever(a) == FALSE

\* initializedAgents.has(agentInfo.id)
alreadyInitialized(a) == a \in initializedAgents

\* porter.onMessagesSet; the signal may repeat
MessagesSet(a) ==
  /\ link[a] \in {"connected", "ready"}
  /\ Len(toAgent[a]) < MaxQueue
  /\ link' = [link EXCEPT ![a] = "ready"]
  /\ IF alreadyInitialized(a)
     THEN UNCHANGED <<initializedAgents, toAgent, snapAt>>
     ELSE /\ initializedAgents' = initializedAgents \cup {a}
          /\ toAgent' = Post(toAgent, a, InitialStateMsg(getFullStateForAgent(a), a))
          /\ snapAt' = [snapAt EXCEPT ![a] = IF hydPc = "done" THEN "after" ELSE "before"]
  /\ UNCHANGED <<isDestroyed, sharedState, agentStates, registry,
                 stateChangeListeners, agentConnectListeners,
                 agentDisconnectListeners, asyncVars, storageVars, toStore,
                 agentVars, lastCall, lastSet, written, lastExec, configActions,
                 stores, ops>>

\* the Store's porter.onDisconnect handler
\* a disconnect handler that forgets nothing
storeOnDisconnectKeep(a) == UNCHANGED <<registry, agentStates, initializedAgents>>

storeOnDisconnect(a) ==
  IF a \in registry
  THEN /\ registry' = registry \ {a}
       /\ agentStates' = removeAgentState(agentStates, a)
       /\ initializedAgents' = initializedAgents \ {a}
  ELSE UNCHANGED <<registry, agentStates, initializedAgents>>

\* the connection of a ends: both ends see the port close, and what was in
\* flight on it is lost
Disconnect(a) ==
  /\ link[a] \in {"connected", "ready"}
  /\ link' = [link EXCEPT ![a] = "closed"]
  /\ toStore' = [toStore EXCEPT ![a] = <<>>]
  /\ toAgent' = [toAgent EXCEPT ![a] = <<>>]
  /\ storeOnDisconnect(a)
  /\ AgentOnDisconnect(a)
  /\ UNCHANGED <<isDestroyed, sharedState, stateChangeListeners,
                 agentConnectListeners, agentDisconnectListeners, asyncVars,
                 storageVars, obsVars, configActions, stores, ops>>

\* porter.on({setState}): this.setState(message.payload.state, agentInfo.id)
StoreReceiveSetState(a) ==
  /\ link[a] \in {"connected", "ready"}
  /\ toStore[a] # <<>>
  /\ Head(toStore[a]).action = "setState"
  /\ CanAwait /\ Room(toAgent)
  /\ toStore' = [toStore EXCEPT ![a] = Tail(@)]
  /\ IF assertNotDestroyed
     THEN SetStateFlow(Head(toStore[a]).state, a, NoExec, toAgent)
     ELSE UNCHANGED <<sharedState, agentStates, inflight, toAgent, lastSet, written>>
  /\ UNCHANGED <<isDestroyed, registry, initializedAgents, stateChangeListeners,
                 agentConnectListeners, agentDisconnectListeners, hydPc, hydrated,
                 execs, storageVars, link, agentVars, lastCall, configActions, lastExec, snapAt, stores, ops>>

\* porter.on({rpc}): actionExecutor.execute(actionName, args, agentInfo), up to
\* the handler's first suspension
StoreReceiveRpc(a) ==
  /\ link[a] \in {"connected", "ready"}
  /\ toStore[a] # <<>>
  /\ Head(toStore[a]).action = "rpc"
  /\ CanAwait /\ Room(toAgent) /\ Len(execs) < MaxQueue
  /\ toStore' = [toStore EXCEPT ![a] = Tail(@)]
  /\ LET m == Head(toStore[a])
         name == m.actionName
         e == [agent |-> a, name |-> name, value |-> m.args]
         def == lookup(name)
         invalid == IF def = "definition" THEN validate(name, m.args) ELSE NoError
         checks == IF name = "setPositive" THEN 1 ELSE 0
         Fail(error, validatorCalls, handlerCalls) ==
           /\ toAgent' = FinishExec(toAgent, e, FALSE, 0, error)
           /\ lastExec' = Exec(a, name, m.args, validatorCalls, handlerCalls)
           /\ UNCHANGED <<sharedState, agentStates, inflight, execs, lastSet, written>>
     IN CASE ~configActions.declared ->
               Fail(ActionError(name, <<"No actions defined">>), 0, 0)
          [] configActions.declared /\ def = "undefined" ->
               Fail(ActionError(name, <<"Unknown action">>), 0, 0)
          [] configActions.declared /\ def # "undefined" /\ invalid # NoError ->
               Fail(ValidationError(name, invalid), checks, 0)
          [] configActions.declared /\ def # "undefined" /\ invalid = NoError
               /\ ~assertNotDestroyed ->
               \* ctx.state = this.getState() throws
               Fail(DestroyedError, checks, 0)
          [] configActions.declared /\ def = "inherited" /\ assertNotDestroyed ->
               \* actionDef.handler is undefined: calling it throws inside the try
               Fail(ActionError(name, <<"actionDef.handler is not a function">>), 0, 0)
          [] configActions.declared /\ def = "definition" /\ invalid = NoError
               /\ assertNotDestroyed ->
               /\ lastExec' = Exec(a, name, m.args, checks, 1)
               /\ CASE name \in {"setCount", "setThenFail"} ->
                         /\ SetStateFlow(Single(count, m.args), a, e, toAgent)
                         /\ UNCHANGED execs
                    [] name \in {"fetchData", "slowCount"} ->
                         /\ execs' = Append(execs, e)
                         /\ UNCHANGED <<sharedState, agentStates, inflight, toAgent,
                                        lastSet, written>>
                    [] name = "setPositive" ->
                         /\ toAgent' = FinishExec(toAgent, e, TRUE, m.args, NoError)
                         /\ UNCHANGED <<sharedState, agentStates, inflight, execs,
                                        lastSet, written>>
                    [] name = "fail" ->
                         /\ toAgent' = FinishExec(toAgent, e, FALSE, 0,
                                          ActionError(name, <<"boom">>))
                         /\ UNCHANGED <<sharedState, agentStates, inflight, execs,
                                        lastSet, written>>
  /\ UNCHANGED <<isDestroyed, registry, initializedAgents, stateChangeListeners,
                 agentConnectListeners, agentDisconnectListeners, hydPc, hydrated,
                 storageVars, link, agentVars, lastCall, configActions, snapAt, stores, ops>>

RemoveAt(q, i) == SubSeq(q, 1, i - 1) \o SubSeq(q, i + 1, Len(q))

\* a suspended handler resumes: fetchData with await ctx.setState({agentData:
\* value}), slowCount with await ctx.setState({count: value})
ExecResume(i) ==
  /\ i \in 1..Len(execs)
  /\ CanAwait /\ Room(toAgent)
  /\ execs' = RemoveAt(execs, i)
  /\ LET e == execs[i]
     IN IF assertNotDestroyed
        THEN SetStateFlow(Single(IF e.name = "slowCount" THEN count ELSE agentData,
                                 e.value), e.agent, e, toAgent)
        ELSE /\ toAgent' = FinishExec(toAgent, e, FALSE, 0,
                              ActionError(e.name, DestroyedError))
             /\ UNCHANGED <<sharedState, agentStates, inflight, lastSet, written>>
  /\ UNCHANGED <<isDestroyed, registry, initializedAgents, stateChangeListeners,
                 agentConnectListeners, agentDisconnectListeners, hydPc, hydrated,
                 storageVars, link, toStore, agentVars, lastCall, configActions, lastExec, snapAt, stores, ops>>

\* ------------------------------------------------------------------------
\* The integrated system: one Store, the Agents, the transport and storage
\* ------------------------------------------------------------------------
PriorMeta == [version |-> StoreVersion, createdAt |-> "before"]

\* what storage.local may hold when the Store is constructed: nothing, a value
\* this name+version persisted earlier, or a value of an older schema version
InitLocals ==
  { Empty,
    Put(Single(buildKey(count), 5), getMetaKey, PriorMeta),
    Single(buildKeyFor(StoreName, StoreVersion + 1, count), 5),
    Single(buildKeyFor(StoreName \o StoreName, StoreVersion, count), 5) }

InitLocalsSync == {Empty, Put(Single(buildKey(count), 5), getMetaKey, PriorMeta)}

NoStores == <<>>

\* the state after construction, but for the subscribers of the Store
InitButListeners ==
  /\ isDestroyed = FALSE
  /\ sharedState = buildDefaultSharedState
  /\ agentStates = [a \in {} |-> buildDefaultAgentState]
  /\ registry = {}
  /\ initializedAgents = {}
  /\ agentConnectListeners = {}
  /\ agentDisconnectListeners = {}
  /\ hydPc = "read"
  /\ hydrated = [state |-> Empty, meta |-> NoMeta]
  /\ inflight = <<>>
  /\ execs = <<>>
  /\ session = Empty
  /\ link = [a \in Agents |-> "idle"]
  /\ toStore = [a \in Agents |-> <<>>]
  /\ toAgent = [a \in Agents |-> <<>>]
  /\ cache = [a \in Agents |-> buildDefaultState]
  /\ agentInfo = [a \in Agents |-> None]
  /\ isConnected = [a \in Agents |-> FALSE]
  /\ isDisconnected = [a \in Agents |-> FALSE]
  /\ readyValue = [a \in Agents |-> NotReady]
  /\ callId = [a \in Agents |-> 0]
  /\ pendingCalls = [a \in Agents |-> {}]
  /\ promises = [a \in Agents |-> [i \in {} |-> Pending]]
  /\ callbacks = [a \in Agents |-> NoCallbacks]
  /\ invoked = [a \in Agents |-> {}]
  /\ lateCalls = [a \in Agents |-> {}]
  /\ earlyWrites = [a \in Agents |-> {}]
  /\ written = {}
  /\ lastCall = [op |-> "new", threw |-> FALSE]
  /\ lastExec = Exec(NoAgent, None, 0, 0, 0)
  /\ lastSet = SetRecord(Empty, NoAgent, FALSE, "read", 0, {}, 0, FALSE)
  /\ snapAt = [a \in Agents |-> "none"]
  /\ ops = 0

InitCommon ==
  /\ InitButListeners
  /\ stateChangeListeners = <<>>

Init ==
  /\ InitCommon
  /\ local \in InitLocalsSync
  /\ stores = NoStores
  /\ configActions = AllActions

\* The Store and two Agents synchronising state
PartialsSync == {Single(count, 5), Single(agentData, 5)}

Next ==
  \/ \E p \in PartialsSync : StoreSetState(p)
  \/ PersistDone
  \/ \E l \in Listeners : StoreSubscribe(l)
  \/ HydrateRead
  \/ HydrateMetaGet
  \/ HydrateMetaSet
  \/ HydrateApply
  \/ \E a \in Agents : Connect(a)
  \/ \E a \in Agents : MessagesSet(a)
  \/ \E a \in Agents : StoreReceiveSetState(a)
  \/ \E a \in Agents, p \in PartialsSync : AgentSetState(a, p)
  \/ \E a \in Agents : AgentReceive(a)

Spec == Init /\ [][Next]_vars

\* C1: when the last write the Store applied is a setState request of Agent A
\* that changed the shared key count, and nothing is in flight any more, every
\* other Ready Agent B's cache holds the Store's value of count.
C1_SharedWriteReachesEveryAgent ==
  \A A \in Agents, B \in Agents :
    ( /\ A # B
      /\ lastSet.agentId = A
      /\ count \in DOMAIN lastSet.state
      /\ ~lastSet.noop
      /\ ~lastSet.threw
      /\ lastSet.at = "done"
      /\ Quiescent
      /\ Ready(A)
      /\ Ready(B) )
    => cache[B][count] = sharedState[count]

\* C2: a setState call on an Active Store whose partial gives every key the
\* value already held calls no listener, posts no stateUpdate and writes
\* nothing to storage.
C2_EqualValuesAreSilent ==
  (lastSet.noop /\ lastSet.at = "done" /\ ~lastSet.threw)
    => /\ lastSet.listenerCalls = 0
       /\ lastSet.targets = {}
       /\ lastSet.writes = 0

\* The Store and two Agents calling actions, with connections ending and the
\* Store being destroyed
InitRpc ==
  /\ InitCommon
  /\ local = Empty
  /\ stores = NoStores
  /\ configActions = AllActions

NextRpc ==
  \/ PersistDone
  \/ \E c \in BOOLEAN : StoreDestroy(c)
  \/ ClearAllDone
  \/ \E a \in Agents : Connect(a)
  \/ \E a \in Agents : MessagesSet(a)
  \/ \E a \in Agents : Disconnect(a)
  \/ \E a \in Agents : StoreReceiveRpc(a)
  \/ \E i \in 1..MaxQueue : ExecResume(i)
  \/ \E a \in Agents, n \in CallNames : AgentCall(a, n, 5)
  \/ \E a \in Agents : AgentDisconnect(a)
  \/ \E a \in Agents : AgentReceive(a)

SpecRpc == InitRpc /\ [][NextRpc]_vars

\* C4: a call issued by a Ready Agent against an Active Store is settled by
\* the rpcResult the Store sends for it: once the Store has answered and the
\* answer has been delivered over a connection that stayed up, the promise is
\* no longer pending.
C4_ActiveCallIsSettled ==
  \A a \in Agents :
    (Ready(a) /\ link[a] = "ready" /\ ~isDestroyed /\ Quiescent)
      => \A id \in DOMAIN promises[a] :
           promises[a][id].active => promises[a][id].status # "pending"

\* C5: after agent.disconnect() the Agent's pending-call table is empty and no
\* promise is pending; after the transport reported the end of the connection
\* no promise issued while the connection was up is still pending.
C5_ConnectionEndRejectsPendingCalls ==
  \A a \in Agents :
    /\ isDisconnected[a] =>
         /\ pendingCalls[a] = {}
         /\ \A id \in DOMAIN promises[a] : promises[a][id].status # "pending"
    /\ link[a] = "closed" =>
         \A id \in DOMAIN promises[a] :
           promises[a][id].active => promises[a][id].status # "pending"

\* C6: once the Store has processed the disconnect of a connection, the
\* registry does not hold it, the StateManager has no agent state for it and
\* no stateUpdate is queued for it, whatever was in flight at that moment.
C6_DisconnectedAgentLeavesNoTrace ==
  \A a \in Agents :
    (link[a] = "closed" /\ ~isDestroyed)
      => /\ a \notin registry
         /\ a \notin DOMAIN agentStates
         /\ \A i \in 1..Len(toAgent[a]) : toAgent[a][i].action # "stateUpdate"

\* ------------------------------------------------------------------------
\* The Store's public API, called by the code that owns the Store while
\* hydration runs and agents connect
\* ------------------------------------------------------------------------
PartialsApi == {Single(count, 5), Single(agentData, 5), Single(bogus, 5)}

PartialsLife == {Single(count, 5), Single(agentData, 5)}

NextApi ==
  \/ \E p \in PartialsLife : StoreSetState(p)
  \/ \E p \in PartialsLife, a \in Agents : StoreSetAgentState(a, p)
  \/ PersistDone
  \/ StoreGetState
  \/ \E a \in Agents : StoreGetAgentState(a)
  \/ StoreGetAgents
  \/ \E l \in Listeners : StoreSubscribe(l)
  \/ \E l \in Listeners : StoreOnAgentConnect(l)
  \/ \E l \in Listeners : StoreOnAgentDisconnect(l)
  \/ StoreClear
  \/ ClearAllDone
  \/ \E c \in BOOLEAN : StoreDestroy(c)
  \/ HydrateRead
  \/ HydrateMetaGet
  \/ HydrateMetaSet
  \/ HydrateApply
  \/ \E a \in Agents : Connect(a)

SpecApi == InitRpc /\ [][NextApi]_vars

\* ------------------------------------------------------------------------
\* Agent state: writes attributed to a connection, while connections come
\* and go
\* ------------------------------------------------------------------------
NextIso ==
  \/ \E p \in PartialsApi, a \in Agents : StoreSetStateFor(p, a)
  \/ \E p \in PartialsApi, a \in Agents : StoreSetAgentState(a, p)
  \/ PersistDone
  \/ \E a \in Agents : Connect(a)
  \/ \E a \in Agents : Disconnect(a)
  \/ \E a \in Agents : AgentReceive(a)

SpecIso == InitRpc /\ [][NextIso]_vars

\* ------------------------------------------------------------------------
\* Hydration racing with the first writes of the code that owns the Store
\* ------------------------------------------------------------------------
InitHydrate ==
  /\ InitCommon
  /\ local \in InitLocals
  /\ stores = NoStores
  /\ configActions = AllActions

NextHydrate ==
  \/ \E v \in Val : StoreSetState(Single(count, v))
  \/ PersistDone
  \/ StoreClear
  \/ ClearAllDone
  \/ \E c \in BOOLEAN : StoreDestroy(c)
  \/ HydrateRead
  \/ HydrateMetaGet
  \/ HydrateMetaSet
  \/ HydrateApply

SpecHydrate == InitHydrate /\ [][NextHydrate]_vars

\* C7: a setAgentState(A, ...) or setState(..., A) call leaves what
\* getAgentState(B) returns unchanged, for any two distinct connected ids A, B;
\* so does any sequence of such calls.
C7_AgentStateIsIsolated ==
  [][\A A \in Agents, B \in Agents :
       ( /\ A # B
         /\ A \in registry /\ B \in registry
         /\ \E p \in PartialsApi : StoreSetAgentState(A, p) \/ StoreSetStateFor(p, A) )
       => getAgentStateOf(agentStates', B) = getAgentStateOf(agentStates, B)
    ]_vars

\* A has been given agentData 5 by a setAgentState call while B, also
\* connected, still has the default
C7_Witness ==
  \E A \in Agents, B \in Agents :
    /\ A # B
    /\ A \in registry /\ B \in registry
    /\ ~isDestroyed
    /\ lastCall.op = "setAgentState"
    /\ getAgentState(A)[agentData] = 5
    /\ getAgentState(B)[agentData] = Default(agentData)

\* the value storage holds for shared key k under this Store's name and
\* version, else the default
PersistedOrDefault(k) ==
  LET combined == Merge(local, session)
  IN IF buildKey(k) \in DOMAIN combined THEN combined[buildKey(k)] ELSE Default(k)

\* C8 as stated: on a Store that is not destroyed, count is its default until
\* hydration completes and the persisted value, else the default, afterwards.
C8_HydrationDecidesValue ==
  ~isDestroyed =>
    /\ hydPc # "done" => sharedState[count] = Default(count)
    /\ hydPc = "done" => sharedState[count] = PersistedOrDefault(count)

\* C8: on a Store that is not destroyed, and as long as no setState or clear
\* call has written count, count is its default until hydration completes and
\* afterwards the value persisted under this exact name and version if there
\* is one, else the default.
C8_HydrationDecidesUnwrittenValue ==
  (~isDestroyed /\ count \notin written) =>
    /\ hydPc # "done" => sharedState[count] = Default(count)
    /\ hydPc = "done" => sharedState[count] = PersistedOrDefault(count)

\* hydration has completed and brought in a persisted value that is not the
\* default
C8_Witness ==
  /\ ~isDestroyed
  /\ count \notin written
  /\ hydPc = "done"
  /\ buildKey(count) \in DOMAIN local
  /\ sharedState[count] = 5
  /\ sharedState[count] # Default(count)

\* C37: once hydration has completed and no storage call is outstanding, every
\* shared key that is persisted and has a value in its tier has there the value
\* the Store holds in memory.
C37_StoredEqualsMemory ==
  (hydPc = "done" /\ inflight = <<>> /\ ~isDestroyed) =>
    \A k \in SharedKeys :
      /\ (Persist(k) = "local" /\ buildKey(k) \in DOMAIN local)
           => local[buildKey(k)] = sharedState[k]
      /\ (Persist(k) = "session" /\ buildKey(k) \in DOMAIN session)
           => session[buildKey(k)] = sharedState[k]

\* the public operations that must throw once the Store is destroyed
GuardedOps ==
  {"getState", "getAgentState", "setState", "setAgentState", "clear", "subscribe",
   "onAgentConnect", "onAgentDisconnect", "getAgents"}

\* C10: once the Store is destroyed it stays destroyed, and every later call
\* of a guarded operation throws and changes nothing of the Store, the
\* storage, the messages in flight or the Agents.
C10_DestroyedStoreRejectsCalls ==
  [][isDestroyed =>
       /\ isDestroyed'
       /\ ops' # ops =>
            /\ lastCall'.op \in GuardedOps
            /\ lastCall'.threw
            /\ UNCHANGED <<storeVars, asyncVars, storageVars, portVars, agentVars>>
    ]_vars

\* a setState call made after destroy() has thrown
C10_Witness ==
  /\ isDestroyed
  /\ lastCall.op = "setState"
  /\ lastCall.threw

\* ------------------------------------------------------------------------
\* The Agent alone, its porter answering calls as the Agent's tests do: a
\* response carries a callId, and responses come in any order, any number of
\* times
\* ------------------------------------------------------------------------
CallIds == {Digits(n) : n \in 0..(MaxCalls - 1)} \cup {Undefined}

\* messageHandlers.rpcResult({payload: {callId, result | error, success}})
RpcResultMsg(id, success, v) ==
  [action |-> "rpcResult", callId |-> id, success |-> success,
   result |-> IF success THEN v ELSE 0,
   error |-> IF success THEN NoError ELSE <<"Something went wrong">>]

HarnessRespond(a, id, success, v) ==
  /\ Len(toAgent[a]) < MaxQueue
  /\ toAgent' = [toAgent EXCEPT ![a] = Append(@, RpcResultMsg(id, success, v))]
  /\ UNCHANGED <<storeVars, asyncVars, storageVars, link, toStore, agentVars,
                 obsVars, stores, ops>>

\* the outcomes a response carries: a result, or an error
Answers == {<<TRUE, 5>>, <<FALSE, 0>>}

UnderTest == {"a1"}

NextAgent ==
  \/ \E a \in UnderTest, n \in ActionNames : AgentCall(a, n, 5)
  \/ \E a \in UnderTest, id \in CallIds, r \in Answers :
       HarnessRespond(a, id, r[1], r[2])
  \/ \E a \in UnderTest : AgentReceive(a)

SpecAgent == InitRpc /\ [][NextAgent]_vars

\* the outcome a response carries
Outcome(msg) ==
  [status |-> IF msg.success THEN "resolved" ELSE "rejected",
   result |-> msg.result, error |-> msg.error]

OutcomeOf(p) == [status |-> p.status, result |-> p.result, error |-> p.error]

\* C3: every call of one Agent gets a correlation id no earlier call of that
\* Agent has; a promise changes only when a response bearing its own id is
\* delivered while it is pending, and then takes that response's result or
\* error; a settled promise never changes again.
C3_ResponsesSettleTheirOwnCall ==
  [][\A a \in Agents :
       /\ callId'[a] # callId[a] =>
            /\ DOMAIN promises[a] \subseteq DOMAIN promises'[a]
            /\ Cardinality(DOMAIN promises'[a]) = Cardinality(DOMAIN promises[a]) + 1
            /\ \A id \in DOMAIN promises[a] : promises'[a][id] = promises[a][id]
       /\ \A id \in DOMAIN promises[a] :
            LET delivered ==
                  /\ toAgent[a] # <<>>
                  /\ toAgent'[a] = Tail(toAgent[a])
                  /\ Head(toAgent[a]).action = "rpcResult"
                  /\ Head(toAgent[a]).callId = id
            IN /\ id \in DOMAIN promises'[a]
               /\ promises[a][id].status # "pending" =>
                    promises'[a][id] = promises[a][id]
               /\ (promises[a][id].status = "pending" /\ delivered) =>
                    OutcomeOf(promises'[a][id]) = Outcome(Head(toAgent[a]))
               /\ (promises[a][id].status = "pending" /\ ~delivered) =>
                    promises'[a][id] = promises[a][id]
               /\ (id \in pendingCalls'[a]) = (promises'[a][id].status = "pending")
    ]_vars

\* two calls of one Agent answered in reverse order: the second is resolved
\* with its response's value while the first is still pending
C3_Witness ==
  \E a \in Agents :
    /\ DOMAIN promises[a] = {Digits(0), Digits(1)}
    /\ promises[a][Digits(0)].status = "pending"
    /\ promises[a][Digits(1)].status = "resolved"
    /\ promises[a][Digits(1)].result = 5

\* ------------------------------------------------------------------------
\* The Agent alone with its callbacks: the application registers callbacks and
\* calls the Agent, the porter hands it initialState and stateUpdate messages
\* and disconnect and reconnect events in any order, timers fire when they may
\* ------------------------------------------------------------------------
Callbacks == {"f"}

Subscribers ==
  {[filtered |-> FALSE, keys |-> {}, callback |-> "f"],
   [filtered |-> TRUE, keys |-> {agentData}, callback |-> "g"]}

\* the states an initialState message carries
StatesH ==
  {Merge(Single(count, 5), Single(agentData, 0)),
   Merge(Single(count, 0), Single(agentData, 5))}

\* messageHandlers.initialState({payload: {state, info}}) and
\* messageHandlers.stateUpdate({payload: {state}})
Deliveries(a) ==
  {InitialStateMsg(st, a) : st \in StatesH} \cup {StateUpdateMsg(Single(count, 5))}

HarnessDeliver(a, msg) ==
  /\ Len(toAgent[a]) < MaxQueue
  /\ toAgent' = [toAgent EXCEPT ![a] = Append(@, msg)]
  /\ UNCHANGED <<storeVars, asyncVars, storageVars, link, toStore, agentVars,
                 obsVars, stores, ops>>

\* the porter reports that the connection went down
PorterDisconnect(a) ==
  /\ link[a] # "closed"
  /\ link' = [link EXCEPT ![a] = "closed"]
  /\ AgentOnDisconnect(a)
  /\ UNCHANGED <<storeVars, asyncVars, storageVars, toStore, toAgent, obsVars,
                 stores, ops>>

\* the porter reports that the connection is up again
PorterReconnect(a) ==
  /\ link[a] = "closed"
  /\ link' = [link EXCEPT ![a] = "ready"]
  /\ AgentOnReconnect(a, a)
  /\ UNCHANGED <<storeVars, asyncVars, storageVars, toStore, toAgent, obsVars,
                 stores, ops>>

NextHooks ==
  \/ \E a \in UnderTest : Agent_ready(a)
  \/ \E a \in UnderTest, cb \in Callbacks : Agent_onReady(a, cb)
  \/ \E a \in UnderTest : Agent_getState(a)
  \/ \E a \in UnderTest, sub \in Subscribers : Agent_subscribe(a, sub)
  \/ \E a \in UnderTest, cb \in Callbacks : Agent_onDisconnect(a, cb)
  \/ \E a \in UnderTest, cb \in Callbacks : Agent_onReconnect(a, cb)
  \/ \E a \in UnderTest : AgentSetState(a, Single(agentData, 5))
  \/ \E a \in UnderTest : AgentCall(a, "setCount", 5)
  \/ \E a \in UnderTest : AgentDisconnect(a)
  \/ \E a \in UnderTest : TimerFire(a)
  \/ \E a \in UnderTest : \E msg \in Deliveries(a) : HarnessDeliver(a, msg)
  \/ \E a \in UnderTest : AgentReceive(a)
  \/ \E a \in UnderTest : PorterDisconnect(a)
  \/ \E a \in UnderTest : PorterReconnect(a)

SpecHooks == InitRpc /\ [][NextHooks]_vars

\* C11: once disconnect() has been called on an Agent, the Agent stays
\* disconnected, every later call of ready, onReady, getState, setState,
\* subscribe, actions, onDisconnect or onReconnect throws, and no step - a
\* message, a transport event or a timer - invokes a callback of that Agent.
C11_DisconnectedAgentIsInert ==
  [][\A a \in Agents :
       isDisconnected[a] =>
         /\ isDisconnected'[a]
         /\ \A c \in lateCalls'[a] : c.threw
         /\ invoked'[a] = invoked[a]
    ]_vars

\* The Agent's state and ready promise alone: no callbacks are registered
NextReady ==
  \/ \E a \in UnderTest : Agent_ready(a)
  \/ \E a \in UnderTest : Agent_getState(a)
  \/ \E a \in UnderTest, k \in ConfigKeys : AgentSetState(a, Single(k, 5))
  \/ \E a \in UnderTest : AgentCall(a, "setCount", 5)
  \/ \E a \in UnderTest : \E msg \in Deliveries(a) : HarnessDeliver(a, msg)
  \/ \E a \in UnderTest : AgentReceive(a)
  \/ \E a \in UnderTest : PorterDisconnect(a)
  \/ \E a \in UnderTest : PorterReconnect(a)

SpecReady == InitRpc /\ [][NextReady]_vars

\* Agent a takes an initialState message in this step
TakesInitialState(a) ==
  /\ toAgent[a] # <<>>
  /\ toAgent'[a] = Tail(toAgent[a])
  /\ Head(toAgent[a]).action = "initialState"

\* C12: the ready promise of an Agent resolves when the first initialState
\* message is handled, with the state that message carries, and by no other
\* step; once resolved it never changes, whatever later initialState messages
\* carry.
C12_ReadyResolvesOnce ==
  [][\A a \in Agents :
       /\ readyValue[a].resolved => readyValue'[a] = readyValue[a]
       /\ (~readyValue[a].resolved /\ TakesInitialState(a)) =>
            readyValue'[a] = [resolved |-> TRUE, state |-> Head(toAgent[a]).state]
       /\ (~readyValue[a].resolved /\ ~TakesInitialState(a)) =>
            ~readyValue'[a].resolved
    ]_vars

\* ready() resolved with count 5, and a later initialState carrying count 0
\* has replaced the Agent's state
C12_Witness ==
  \E a \in Agents :
    /\ readyValue[a].resolved
    /\ readyValue[a].state[count] = 5
    /\ cache[a][count] = 0

ExecNames == {"setCount", "fetchData", "setPositive", "fail", "nope", "toString"}

\* the calls made: every name with 5, and setPositive with -5 as well
ExecCalls == {<<n, 5>> : n \in ExecNames} \cup {<<"setPositive", -5>>}

InitExec ==
  /\ InitCommon
  /\ local = Empty
  /\ stores = NoStores
  /\ configActions \in ActionConfigs

NextExec ==
  \/ \E a \in UnderTest : Connect(a)
  \/ \E a \in UnderTest : MessagesSet(a)
  \/ \E a \in UnderTest, c \in ExecCalls : AgentCall(a, c[1], c[2])
  \/ \E a \in UnderTest : StoreReceiveRpc(a)
  \/ \E i \in 1..MaxQueue : ExecResume(i)
  \/ PersistDone
  \/ StoreDestroy(FALSE)
  \/ \E a \in UnderTest : AgentReceive(a)

SpecExec == InitExec /\ [][NextExec]_vars

\* the Store takes an rpc request of Agent a in this step
TakesRpc(a) ==
  /\ toStore[a] # <<>>
  /\ toStore'[a] = Tail(toStore[a])
  /\ link'[a] = link[a]
  /\ Head(toStore[a]).action = "rpc"

\* the rpcResult the step posts to Agent a, after what was queued for it
PostsResult(a, msg) == toAgent'[a] = Append(toAgent[a], msg)

UnknownReasons == {<<"No actions defined">>, <<"Unknown action">>}

\* C14: when the Store executes a call whose name the config does not declare
\* (because it declares no actions, or none of that name), the call fails with
\* the unknown-action error, no handler is invoked, and no state of the Store
\* or of storage changes.
C14_UndeclaredNameIsUnknownAction ==
  [][\A a \in Agents :
       LET m == Head(toStore[a])
       IN (TakesRpc(a)
             /\ (~configActions.declared \/ m.actionName \notin configActions.names)) =>
            /\ \E reason \in UnknownReasons :
                 PostsResult(a, StoreRpcResultMsg(m.actionName, FALSE, 0,
                                                  ActionError(m.actionName, reason)))
            /\ lastExec'.agent = a /\ lastExec'.name = m.actionName
            /\ lastExec'.handlerCalls = 0
            /\ UNCHANGED <<storeVars, asyncVars, storageVars, lastSet, written>>
    ]_vars

\* ------------------------------------------------------------------------
\* Two connections that stay up, calling actions that succeed, suspend and fail
\* ------------------------------------------------------------------------
ReplyCalls ==
  {<<"setCount", 5>>, <<"fetchData", 5>>, <<"fail", 5>>, <<"nope", 5>>,
   <<"setPositive", -5>>}

NextReply ==
  \/ \E a \in Agents : Connect(a)
  \/ \E a \in Agents, c \in ReplyCalls : AgentCall(a, c[1], c[2])
  \/ \E a \in Agents : StoreReceiveRpc(a)
  \/ \E i \in 1..MaxQueue : ExecResume(i)
  \/ PersistDone
  \/ StoreDestroy(FALSE)
  \/ \E a \in Agents : AgentReceive(a)

SpecReply == InitRpc /\ [][NextReply]_vars

\* the rpcResult messages queued in q
RpcResults(q) == Cardinality({i \in 1..Len(q) : q[i].action = "rpcResult"})

\* the requests of Agent a whose handler the Store is still awaiting, given
\* the suspended handlers and the awaited storage calls
Awaited(a, suspended, awaited) ==
  Cardinality({i \in 1..Len(suspended) : suspended[i].agent = a})
  + Cardinality({i \in 1..Len(awaited) :
                   awaited[i].kind = "persist" /\ awaited[i].exec.agent = a})

\* the calls of ReplyCalls that fail: unknown action, validator throws,
\* handler throws
FailureOf(name) ==
  CASE name = "nope" -> ActionError(name, <<"Unknown action">>)
    [] name = "setPositive" -> ValidationError(name, <<"Must be positive">>)
    [] name = "fail" -> ActionError(name, <<"boom">>)
    [] OTHER -> NoError

\* C15: a step in which the Store takes or finishes rpc requests adds to each
\* connection's queue exactly as many rpcResult messages as requests of that
\* connection it finished, so every request gets one rpcResult and only its
\* requester receives it; a request for an unknown action, one whose validator
\* throws and one whose handler is invoked and throws are answered at once
\* with success false and the error's message, and leave the Store, its storage
\* and every other connection's queues as they were.
C15_OneResultToTheRequester ==
  [][\A a \in Agents :
       LET m == Head(toStore[a])
           taken == IF TakesRpc(a) THEN 1 ELSE 0
       IN /\ ~(toAgent[a] # <<>> /\ toAgent'[a] = Tail(toAgent[a])) =>
               RpcResults(toAgent'[a]) - RpcResults(toAgent[a]) =
                 taken + Awaited(a, execs, inflight) - Awaited(a, execs', inflight')
          /\ (TakesRpc(a) /\ FailureOf(m.actionName) # NoError
                /\ (m.actionName = "fail" => ~isDestroyed)) =>
               /\ PostsResult(a, StoreRpcResultMsg(m.actionName, FALSE, 0,
                                                   FailureOf(m.actionName)))
               /\ \A b \in Agents \ {a} : toAgent'[b] = toAgent[b]
               /\ UNCHANGED <<storeVars, asyncVars, storageVars>>
    ]_vars

\* a1's call of an unknown action was answered with a failure, and after it
\* a2's setCount call was executed and answered
C15_Witness ==
  /\ RpcResults(toAgent["a1"]) = 1
  /\ toAgent["a1"][Len(toAgent["a1"])].success = FALSE
  /\ lastExec.agent = "a2" /\ lastExec.name = "setCount"
  /\ RpcResults(toAgent["a2"]) = 1
  /\ toAgent["a2"][Len(toAgent["a2"])].success = TRUE
  /\ ~isDestroyed

\* ------------------------------------------------------------------------
\* Change notification: a Store with listeners, one of which throws, written
\* to by its application, by its connections' setState requests and by clear
\* ------------------------------------------------------------------------
ListenersN == {"l1", "bad"}

NextListen ==
  \/ \E l \in ListenersN : StoreSubscribe(l)
  \/ StoreSetState(Single(count, 5))
  \/ PersistDone
  \/ \E a \in Agents : Connect(a)
  \/ \E a \in Agents : AgentReceive(a)

SpecListen == InitRpc /\ [][NextListen]_vars

\* the awaited write of a setState call completes in this step, on a Store
\* that is not destroyed: notifyStateChange runs
NotifiesSetState ==
  /\ inflight # <<>>
  /\ inflight' = Tail(inflight)
  /\ Head(inflight).kind = "persist"
  /\ ~isDestroyed

\* the stateUpdate messages queued in q
StateUpdates(q) == Cardinality({i \in 1..Len(q) : q[i].action = "stateUpdate"})

\* C20: when a setState call notifies its change while a listener that throws
\* is registered, every registered listener is invoked, each registered
\* connection (the change being store-initiated) is sent the stateUpdate, and
\* the setState call does not fail.
C20_ThrowingListenerIsContained ==
  [][(NotifiesSetState /\ listenerThrows /\ Head(inflight).agentId = NoAgent) =>
       /\ lastSet'.listenerCalls = Len(stateChangeListeners)
       /\ \A b \in registry : StateUpdates(toAgent'[b]) = StateUpdates(toAgent[b]) + 1
       /\ ~lastSet'.threw
    ]_vars

\* ------------------------------------------------------------------------
\* Who is notified: connections come and go while the application writes
\* through setState, setAgentState and clear, and the connections through
\* setState requests and the setCount action
\* ------------------------------------------------------------------------
NextNotify ==
  \/ \E a \in Agents : Connect(a)
  \/ \E a \in Agents : Disconnect(a)
  \/ StoreSetState(Single(count, 5))
  \/ \E a \in Agents : StoreSetAgentState(a, Single(agentData, 5))
  \/ StoreClear
  \/ ClearAllDone
  \/ PersistDone
  \/ \E a \in Agents, st \in PartialsLife : AgentSetState(a, st)
  \/ \E a \in Agents : StoreReceiveSetState(a)
  \/ \E a \in Agents : AgentCall(a, "setCount", 5)
  \/ \E a \in Agents : StoreReceiveRpc(a)
  \/ \E a \in Agents : AgentReceive(a)

SpecNotify == InitRpc /\ [][NextNotify]_vars

\* this step is a change notification attributed to the connection who, or to
\* none (NoAgent) when the Store's application made the change
Notifies(who) ==
  \/ NotifiesSetState /\ Head(inflight).agentId = who
  \/ /\ who # NoAgent /\ ~isDestroyed
     /\ toStore[who] # <<>> /\ toStore'[who] = Tail(toStore[who])
     /\ Head(toStore[who]).action = "setState"
     /\ link'[who] = link[who]
     /\ inflight' = inflight
  \/ /\ who # NoAgent /\ ~isDestroyed
     /\ StoreSetAgentState(who, Single(agentData, 5))
  \/ /\ who = NoAgent /\ ~isDestroyed
     /\ inflight # <<>> /\ inflight' = Tail(inflight)
     /\ Head(inflight).kind = "clearAll" /\ Head(inflight).notify

NextShake ==
  \/ \E a \in Agents : Connect(a)
  \/ \E a \in Agents : MessagesSet(a)
  \/ \E a \in Agents : Disconnect(a)
  \/ StoreSetState(Single(count, 5))
  \/ PersistDone
  \/ StoreDestroy(FALSE)

SpecShake == InitRpc /\ [][NextShake]_vars

\* the initialState messages queued in q
InitialStates(q) == Cardinality({i \in 1..Len(q) : q[i].action = "initialState"})

\* C17: of the messages the Store has sent a connection since it connected, at
\* most one is an initialState.
C17_OneInitialStatePerConnection ==
  \A a \in Agents : InitialStates(toAgent[a]) <= 1

\* a connection that was sent its initialState, then a stateUpdate, and whose
\* channel-ready signal can fire again
C17_Witness ==
  \E a \in Agents :
    /\ Len(toAgent[a]) = 2
    /\ toAgent[a][1].action = "initialState"
    /\ toAgent[a][2].action = "stateUpdate"
    /\ link[a] = "ready"

\* ------------------------------------------------------------------------
\* Durable persistence of a shared key (SpecHydrate): config
\* {name: "t", version: 1, count: {default: 0, persist: "local"}}.

\* the storage key of count, letter by letter: crann:t:v1:count
DurableCountKey ==
  <<"c", "r", "a", "n", "n", ":", "t", ":", "v", "1", ":",
    "c", "o", "u", "n", "t">>

\* the step in which an awaited store.setState({count: v}) returns: its
\* storage write completes and notifyStateChange does not throw
SetStateReturns(v) ==
  /\ inflight # <<>>
  /\ Head(inflight).kind = "persist"
  /\ inflight' = Tail(inflight)
  /\ Head(inflight).agentId = NoAgent
  /\ count \in DOMAIN Head(inflight).changes
  /\ Head(inflight).changes[count] = v
  /\ ~lastSet'.threw

\* the step in which the clearAll of destroy({clearPersisted: true}) completes
DestroyClearAllCompletes ==
  /\ inflight # <<>>
  /\ Head(inflight).kind = "clearAll"
  /\ ~Head(inflight).notify
  /\ inflight' = Tail(inflight)

\* C18: when an awaited setState({count: v}) returns, the local tier holds
\* crann:t:v1:count = v; when the clearAll of destroy({clearPersisted: true})
\* completes, that key is absent from the local tier, and it stays absent
\* while the destroyed Store has no storage operation in flight.
C18_DurableWriteAndClear ==
  [][/\ \A v \in Val :
          SetStateReturns(v) =>
            /\ DurableCountKey \in DOMAIN local'
            /\ local'[DurableCountKey] = v
     /\ DestroyClearAllCompletes => DurableCountKey \notin DOMAIN local'
     /\ (isDestroyed /\ inflight = <<>> /\ DurableCountKey \notin DOMAIN local)
          => DurableCountKey \notin DOMAIN local']_vars

\* count was persisted as 5 by a setState that returned, and the clearAll of
\* the last call, destroy({clearPersisted: true}), has removed it
C18_Witness ==
  /\ isDestroyed
  /\ lastCall.op = "destroy"
  /\ inflight = <<>>
  /\ count \in DOMAIN lastSet.state
  /\ lastSet.state[count] = 5
  /\ lastSet.writes = 1
  /\ ~lastSet.threw
  /\ DurableCountKey \notin DOMAIN local

\* ------------------------------------------------------------------------
\* agent.onReady (SpecHooks)

\* the invocations of ready callback cb that a step adds
NewReadyCalls(a, cb) ==
  {c \in invoked'[a] \ invoked[a] : c.kind = "ready" /\ c.callback = cb}

\* C21: onReady(cb) on a connected Agent invokes cb from a timer and not
\* inside the call; a cb registered before the Agent is connected is invoked
\* when the next initialState is handled; a cb that was only ever registered
\* on a connected Agent, and whose timers have fired, is not invoked again.
C21_OnReadyFiresOncePerRegistration ==
  [][\A a \in Agents : \A cb \in Callbacks :
       /\ (cb \in callbacks'[a].readyCallbacks \ callbacks[a].readyCallbacks)
            => /\ NewReadyCalls(a, cb) = {}
               /\ isConnected[a] =>
                    callbacks'[a].timers = Append(callbacks[a].timers, cb)
       /\ (TakesInitialState(a) /\ cb \in callbacks[a].readyCallbacks
              /\ cb \notin callbacks[a].whileReady)
            => \E c \in invoked'[a] :
                 c.kind = "ready" /\ c.callback = cb /\ c.by = "message"
       /\ (cb \in callbacks[a].whileReady
              /\ \A i \in DOMAIN callbacks[a].timers : callbacks[a].timers[i] # cb)
            => NewReadyCalls(a, cb) = {}
    ]_vars

\* ------------------------------------------------------------------------
\* agent.subscribe (SpecSub): subscribers with no key list, with one key, with
\* two keys and with an empty key list; updates of no key and of one key.
SubscribersK ==
  {[filtered |-> FALSE, keys |-> {}, callback |-> "f"],
   [filtered |-> TRUE, keys |-> {count}, callback |-> "g"],
   [filtered |-> TRUE, keys |-> {agentData, bogus}, callback |-> "h"],
   [filtered |-> TRUE, keys |-> {}, callback |-> "e"]}

UpdatesK ==
  {StateUpdateMsg(Empty), StateUpdateMsg(Single(count, 5)),
   StateUpdateMsg(Single(agentData, 5))}

NextSub ==
  \/ \E a \in UnderTest, sub \in SubscribersK : Agent_subscribe(a, sub)
  \/ \E a \in UnderTest, id \in 0 .. MaxOps : Agent_unsubscribe(a, id)
  \/ \E a \in UnderTest, msg \in UpdatesK : HarnessDeliver(a, msg)
  \/ \E a \in UnderTest : AgentReceive(a)

SpecSub == InitRpc /\ [][NextSub]_vars

\* the step in which Agent a handles the message at the head of its queue
TakesMessage(a) ==
  /\ toAgent[a] # <<>>
  /\ toAgent'[a] = Tail(toAgent[a])
  /\ link'[a] = link[a]

SubscriberIds(a) == {sub.id : sub \in callbacks[a].subscribers}

\* C22: when an Agent handles a stateUpdate, a subscriber with a key list is
\* invoked if and only if one of its keys is among the keys of the update and
\* a subscriber without a key list is invoked; no message invokes a
\* subscriber that has been unsubscribed, and unsubscribing is final.
C22_SubscriberKeyFilter ==
  [][\A a \in Agents :
       /\ (TakesMessage(a) /\ Head(toAgent[a]).action = "stateUpdate")
            => \A sub \in callbacks[a].subscribers :
                 sub.id \in callbacks'[a].notified
                   <=> (~sub.filtered
                        \/ \E k \in sub.keys : k \in DOMAIN Head(toAgent[a]).state)
       /\ TakesMessage(a) => callbacks'[a].notified \subseteq SubscriberIds(a)
       /\ \A id \in 0 .. callbacks[a].subCount - 1 :
            id \notin SubscriberIds(a) => id \notin SubscriberIds(a)'
    ]_vars

\* after an update of count alone: the subscriber of count was invoked, a
\* subscriber of other keys was not
C22_Witness ==
  \E a \in Agents :
    /\ cache[a][count] = 5
    /\ \E s1 \in callbacks[a].subscribers, s2 \in callbacks[a].subscribers :
         /\ s1.filtered /\ s1.keys = {count} /\ s1.id \in callbacks[a].notified
         /\ s2.filtered /\ s2.id \notin callbacks[a].notified

\* ------------------------------------------------------------------------
\* Store.setState down to the storage writes (SpecPersist), for a config with
\* one key of every scope and persist mode; "unset" is an item without persist.
ScopesP == {"shared", "agent"}
PersistsP == {"local", "session", "none", "unset"}

\* the key named after its scope and persist mode
KeyP(scope, persist) == <<scope, persist>>

KeysP == {KeyP(sc, pe) : sc \in ScopesP, pe \in PersistsP}

ConfigP ==
  [name |-> StoreName, version |-> StoreVersion,
   items |-> [k \in KeysP |-> [scope |-> k[1], persist |-> k[2]]]]

\* the partials given to setState: one or two keys, bogus among them
PartialsP ==
  {Merge(Single(k1, v1), Single(k2, v2)) :
     k1 \in KeysP \cup {bogus}, k2 \in KeysP \cup {bogus}, v1 \in {5}, v2 \in Val}

NoWrite == [state |-> Empty, local |-> Empty, session |-> Empty]

\* sharedChanges of StateManager.setState under config cfg
splitSharedOf(cfg, state) ==
  Restrict(state, {k \in DOMAIN state :
                     k \in DOMAIN cfg.items /\ cfg.items[k].scope # "agent"})

\* store.setState(state): the split, then persist(sharedChanges) and its two
\* storage.set calls; stores.last keeps what the calls were given
PSetState(state) ==
  LET sharedChanges == splitSharedOf(stores.cfg, state)
      lu == tierUpdates(stores.cfg, sharedChanges, "local")
      su == tierUpdates(stores.cfg, sharedChanges, "session")
  IN /\ local' = Merge(local, lu)
     /\ session' = Merge(session, su)
     /\ stores' = [stores EXCEPT !.last = [state |-> state, local |-> lu, session |-> su]]
     /\ UNCHANGED <<storeVars, asyncVars, portVars, agentVars, obsVars, ops>>

InitPersist ==
  /\ InitCommon
  /\ local = Empty
  /\ configActions = AllActions
  /\ stores = [cfg |-> ConfigP, last |-> NoWrite]

NextPersist == \E state \in PartialsP : PSetState(state)

SpecPersist == InitPersist /\ [][NextPersist]_vars

\* the keys of partial state that a write to tier may carry
Routed(state, tier) ==
  {k \in DOMAIN state \cap KeysP : k[1] = "shared" /\ k[2] = tier}

StorageKeyP(k) == Crann \o <<":", "t", ":", "v", "1", ":">> \o k

\* C23: the storage writes of a setState carry exactly the changed shared
\* keys of persist mode local, with their values, into the local tier and
\* those of persist mode session into the session tier; keys of mode none or
\* without a mode, agent-scoped keys and keys outside the config are written
\* to neither tier.
C23_WritesGoToTheNamedTier ==
  LET w == stores.last
  IN /\ DOMAIN w.local = {StorageKeyP(k) : k \in Routed(w.state, "local")}
     /\ DOMAIN w.session = {StorageKeyP(k) : k \in Routed(w.state, "session")}
     /\ \A k \in Routed(w.state, "local") : w.local[StorageKeyP(k)] = w.state[k]
     /\ \A k \in Routed(w.state, "session") : w.session[StorageKeyP(k)] = w.state[k]
     /\ DOMAIN local \subseteq {StorageKeyP(KeyP("shared", "local"))}
     /\ DOMAIN session \subseteq {StorageKeyP(KeyP("shared", "session"))}

\* one setState of a local key and an agent-scoped key with persist local
C23_Witness ==
  /\ DOMAIN stores.last.state = {KeyP("shared", "local"), KeyP("agent", "local")}
  /\ DOMAIN stores.last.local = {StorageKeyP(KeyP("shared", "local"))}
  /\ DOMAIN stores.last.session = {}

\* ------------------------------------------------------------------------
\* Two store-initiated setState calls and one connected Agent (SpecOrder),
\* under ConfigP: key (shared, local) is persisted, key (shared, none) is not.
\* stores holds the Store's shared state, the setState calls suspended on a
\* storage write, the stateUpdate messages on their way and the Agent's cache.
KeyLocal == KeyP("shared", "local")
KeyNone == KeyP("shared", "none")

DefaultsP == [k \in {KeyLocal, KeyNone} |-> 0]

PartialsO ==
  {Single(KeyNone, 0), Single(KeyNone, 5), Single(KeyLocal, 5),
   Merge(Single(KeyNone, 5), Single(KeyLocal, 5))}

\* store.setState(state) up to its await: stateManager.setState, then
\* persist(sharedChanges). With a storage.set to wait for, the call is
\* suspended; with none, it goes on to notifyStateChange in the same task.
OSetState(state) ==
  LET sharedChanges == splitSharedOf(stores.cfg, state)
      lu == tierUpdates(stores.cfg, sharedChanges, "local")
      su == tierUpdates(stores.cfg, sharedChanges, "session")
  IN /\ Len(stores.pending) < MaxQueue
     /\ Len(stores.sent) < MaxQueue
     /\ IF DOMAIN lu # {} \/ DOMAIN su # {}
        THEN stores' = [stores EXCEPT
                          !.shared = Merge(@, sharedChanges),
                          !.pending = Append(@, [changes |-> state, local |-> lu,
                                                 session |-> su])]
        ELSE stores' = [stores EXCEPT
                          !.shared = Merge(@, sharedChanges),
                          !.sent = Append(@, StateUpdateMsg(state))]
     /\ UNCHANGED <<storeVars, asyncVars, storageVars, portVars, agentVars, obsVars, ops>>

\* the oldest storage.set completes: its setState resumes and notifies
OPersistDone ==
  /\ stores.pending # <<>>
  /\ Len(stores.sent) < MaxQueue
  /\ local' = Merge(local, Head(stores.pending).local)
  /\ session' = Merge(session, Head(stores.pending).session)
  /\ stores' = [stores EXCEPT
                   !.pending = Tail(@),
                   !.sent = Append(@, StateUpdateMsg(Head(stores.pending).changes))]
  /\ UNCHANGED <<storeVars, asyncVars, portVars, agentVars, obsVars, ops>>

\* the Agent's stateUpdate handler
OReceive ==
  /\ stores.sent # <<>>
  /\ stores' = [stores EXCEPT !.sent = Tail(@),
                              !.cache = Merge(@, Head(stores.sent).state)]
  /\ UNCHANGED <<storeVars, asyncVars, storageVars, portVars, agentVars, obsVars, ops>>

InitOrder ==
  /\ InitCommon
  /\ local = Empty
  /\ configActions = AllActions
  /\ stores = [cfg |-> ConfigP, shared |-> DefaultsP, pending |-> <<>>,
               sent |-> <<>>, cache |-> DefaultsP]

NextOrder ==
  \/ \E state \in PartialsO : OSetState(state)
  \/ OPersistDone
  \/ OReceive

SpecOrder == InitOrder /\ [][NextOrder]_vars

\* C25: once every store-initiated setState has notified and every
\* stateUpdate has been handled, the Agent's cache holds the Store's value of
\* every shared key, whether or not the calls waited on a storage write.
C25_UpdatesArriveInCallOrder ==
  (stores.pending = <<>> /\ stores.sent = <<>>)
    => \A k \in {KeyLocal, KeyNone} : stores.cache[k] = stores.shared[k]

\* ------------------------------------------------------------------------
\* Two action handlers writing count (SpecRace): slowCount waits on its api
\* before it writes, setCount writes at once.
RaceCalls == {<<"slowCount", 5>>, <<"setCount", 0>>}

NextRace ==
  \/ \E a \in Agents : Connect(a)
  \/ \E a \in Agents, c \in RaceCalls : AgentCall(a, c[1], c[2])
  \/ \E a \in Agents : StoreReceiveRpc(a)
  \/ \E i \in 1..MaxQueue : ExecResume(i)
  \/ PersistDone
  \/ \E a \in Agents : AgentReceive(a)

SpecRace == InitRpc /\ [][NextRace]_vars

\* the step in which a setCount handler starts and calls ctx.setState({count: v})
SetCountWrites(v) ==
  \E a \in Agents :
    /\ TakesRpc(a)
    /\ Head(toStore[a]).actionName = "setCount"
    /\ Head(toStore[a]).args = v

\* the step in which a suspended slowCount handler calls ctx.setState({count: v})
SlowCountWrites(v) ==
  \E i \in 1..Len(execs) :
    /\ execs' = RemoveAt(execs, i)
    /\ execs[i].name = "slowCount"
    /\ execs[i].value = v

\* C26: every ctx.setState({count: v}) of a handler leaves count = v in the
\* Store at the moment it is called, whenever its action started, and nothing
\* but such a call changes count: the value that stays is that of the last call.
C26_LastCtxSetStateWins ==
  [][/\ \A v \in Val :
          (SetCountWrites(v) \/ SlowCountWrites(v)) => sharedState'[count] = v
     /\ sharedState'[count] # sharedState[count]
          => \E v \in Val : SetCountWrites(v) \/ SlowCountWrites(v)
    ]_vars

\* slowCount(5) started before setCount(0) and wrote after it
C26_Witness ==
  /\ lastExec.name = "setCount"
  /\ execs = <<>>
  /\ inflight = <<>>
  /\ sharedState[count] = 5

\* ------------------------------------------------------------------------
\* A handler that writes and then throws (SpecFail)
FailCalls == {<<"setThenFail", 5>>, <<"setCount", 0>>}

NextFail ==
  \/ \E a \in Agents : Connect(a)
  \/ \E a \in Agents, c \in FailCalls : AgentCall(a, c[1], c[2])
  \/ \E a \in Agents : StoreReceiveRpc(a)
  \/ PersistDone
  \/ \E a \in Agents : AgentReceive(a)

SpecFail == InitRpc /\ [][NextFail]_vars

\* the step in which the ctx.setState of a setThenFail handler returns and
\* the handler throws
HandlerThrows ==
  /\ inflight # <<>>
  /\ inflight' = Tail(inflight)
  /\ Head(inflight).kind = "persist"
  /\ Head(inflight).exec.name = "setThenFail"

\* C27: the ctx.setState({count: v}) of a setThenFail handler changes the
\* Store's count to v when it is called; when the handler then throws, the
\* calling Agent is posted the stateUpdate of count = v and after it the
\* failed rpcResult, and the Store's state is left as it was.
C27_WritesOfFailedHandlerStay ==
  [][/\ \A a \in Agents :
          (TakesRpc(a) /\ Head(toStore[a]).actionName = "setThenFail")
            => sharedState'[count] = Head(toStore[a]).args
     /\ HandlerThrows
          => LET e == Head(inflight).exec
             IN /\ toAgent'[e.agent] =
                     toAgent[e.agent] \o
                       <<StateUpdateMsg(Single(count, e.value)),
                         StoreRpcResultMsg("setThenFail", FALSE, 0,
                                           ActionError("setThenFail", <<"boom">>))>>
                /\ sharedState' = sharedState
                /\ agentStates' = agentStates
    ]_vars

\* the Agent has handled the stateUpdate of its setThenFail(5) call, the
\* failed rpcResult is next in its queue, and the Store's count is 5
C27_Witness ==
  \E a \in Agents :
    /\ cache[a][count] = 5
    /\ toAgent[a] # <<>>
    /\ Head(toAgent[a]).action = "rpcResult"
    /\ Head(toAgent[a]).actionName = "setThenFail"
    /\ ~Head(toAgent[a]).success
    /\ sharedState[count] = 5

\* ------------------------------------------------------------------------
\* The changes argument of notifications (SpecApi)

\* the keys whose value a step changes in the Store
ChangedKeys ==
  {k \in SharedKeys : sharedState'[k] # sharedState[k]}
    \cup {k \in AgentKeys :
            \E a \in Agents : getAgentStateOf(agentStates', a)[k]
                                 # getAgentStateOf(agentStates, a)[k]}

\* C28: when a setState call changes the state and notifies in one step, the
\* changes it hands to the subscribers and puts into the stateUpdate messages
\* have exactly the keys whose value the call changed.
C28_ChangesAreTheChangedKeys ==
  [][(lastSet' # lastSet /\ inflight' = inflight /\ ~lastSet'.threw)
       => DOMAIN lastSet'.state = ChangedKeys]_vars

\* ------------------------------------------------------------------------
\* The registry and the scoped states

\* C29 (SpecNotify): while the Store is not destroyed, the StateManager has an
\* agent state for an id if and only if the registry holds that id.
C29_ScopedStateMirrorsRegistry ==
  ~isDestroyed => DOMAIN agentStates = registry

\* the connections the transport has reported and not reported closed
Live == {a \in Agents : link[a] \in {"connected", "ready"}}

\* C30 (SpecShake): while the Store is not destroyed its registry holds
\* exactly the ids of the connections whose connect event it has handled and
\* whose disconnect event it has not; a connect event adds the one id that
\* was not there, a disconnect event removes the one id that was.
C30_RegistryMirrorsConnections ==
  [][/\ ~isDestroyed' => registry' = Live'
     /\ \A a \in Agents :
          /\ (~isDestroyed /\ link[a] = "idle" /\ link'[a] = "connected")
               => a \notin registry /\ registry' = registry \cup {a}
          /\ (~isDestroyed /\ link[a] \in {"connected", "ready"}
                 /\ link'[a] = "closed")
               => a \in registry /\ registry' = registry \ {a}
    ]_vars

\* one connection has come and gone while another one stays
C30_Witness ==
  /\ ~isDestroyed
  /\ link["a1"] = "closed"
  /\ link["a2"] = "ready"
  /\ registry = {"a2"}

\* C33: the shared state holds exactly the shared keys of the config and every
\* scoped-state entry holds agent-scoped keys of the config only, so that no
\* key is in the shared state and in a scoped state at once.
C33_ScopesStayApart ==
  /\ DOMAIN sharedState = SharedKeys
  /\ \A a \in DOMAIN agentStates : DOMAIN agentStates[a] \subseteq AgentKeys

\* ------------------------------------------------------------------------
\* StateManager.setState on partials of one or two keys (SpecSM)
PartialsSM ==
  {Merge(Single(k1, 5), Single(k2, 5)) :
     k1 \in ConfigKeys \cup {bogus}, k2 \in ConfigKeys \cup {bogus}}

NextSM ==
  \/ \E p \in PartialsSM : StoreSetState(p)
  \/ \E p \in PartialsSM, a \in Agents : StoreSetStateFor(p, a)
  \/ PersistDone
  \/ \E a \in Agents : Connect(a)
  \/ \E a \in Agents : Disconnect(a)

SpecSM == InitRpc /\ [][NextSM]_vars

\* the keys of partial p that the config gives the scope
KeysOfScope(p, scope) ==
  {k \in DOMAIN p : k \in {count, agentData} /\ (k = agentData <=> scope = "agent")}

\* what setState(p, id) has to leave behind and return
SetStateApplies(p, id) ==
  LET r == SM_setState(p, id)
      mine == IF id = NoAgent THEN {} ELSE KeysOfScope(p, "agent")
  IN /\ DOMAIN sharedState' = DOMAIN sharedState
     /\ \A k \in DOMAIN sharedState :
          sharedState'[k] = IF k \in KeysOfScope(p, "shared") THEN p[k] ELSE sharedState[k]
     /\ DOMAIN agentStates \subseteq DOMAIN agentStates'
     /\ DOMAIN agentStates' \subseteq DOMAIN agentStates \cup (IF mine = {} THEN {} ELSE {id})
     /\ \A a \in Agents :
          LET before == getAgentStateOf(agentStates, a)
              after == getAgentStateOf(agentStates', a)
          IN /\ DOMAIN after = DOMAIN before
             /\ \A k \in DOMAIN after :
                  after[k] = IF a = id /\ k \in mine THEN p[k] ELSE before[k]
     /\ DOMAIN r.sharedChanges = KeysOfScope(p, "shared")
     /\ DOMAIN r.agentChanges = mine
     /\ \A k \in DOMAIN r.sharedChanges : r.sharedChanges[k] = p[k]
     /\ \A k \in DOMAIN r.agentChanges : r.agentChanges[k] = p[k]

\* C31: setState(p) and setState(p, id) on a live Store put the shared keys
\* of p into the shared state, the agent-scoped keys of p into the scoped
\* state of id alone and only when id is given, drop the keys that are not in
\* the config, change nothing else, and return change sets of the matching
\* scope only.
C31_SetStateSplitsByScope ==
  [][\A p \in PartialsSM :
       /\ (~isDestroyed /\ StoreSetState(p)) => SetStateApplies(p, NoAgent)
       /\ \A id \in Agents :
            (~isDestroyed /\ StoreSetStateFor(p, id)) => SetStateApplies(p, id)
    ]_vars

\* setState({count: 5, agentData: 5}) with no id has changed count and no
\* scoped state, while a connection has its scoped state at the default
C31_Witness ==
  /\ lastSet.agentId = NoAgent
  /\ DOMAIN lastSet.state = {count, agentData}
  /\ sharedState[count] = 5
  /\ DOMAIN agentStates # {}
  /\ \A a \in DOMAIN agentStates : agentStates[a][agentData] = 0

\* ------------------------------------------------------------------------
\* Two Persistence instances over the same chrome.storage. Names are those
\* createConfig accepts (/^[a-zA-Z][a-zA-Z0-9_-]*$/), versions are positive
\* integers, state keys are any property names. Each instance writes its own
\* index as the value, so a value tells who wrote it. hydrate() is taken as
\* one step: storage only changes by the writes below.
\* ------------------------------------------------------------------------
NamesK == {<<"a">>, <<"a", "1">>, <<"a", "-", "v", "1">>}

VersionsK == {1, 11}

KeysK == {<<"k">>, <<"1", ":", "k">>, <<"v", "1", ":", "k">>}

PersistK(k) == IF k = <<"k">> THEN "session" ELSE "local"

ConfigsK ==
  {[name |-> n, version |-> v,
    items |-> [k \in KeysK |-> [scope |-> "shared", persist |-> PersistK(k)]]] :
     n \in NamesK, v \in VersionsK}

StoreIds == {1, 2}

\* persistence.persist({[k]: value}) of instance i
KPersist(i, k) ==
  /\ local' = Merge(local, tierUpdates(stores.cfgs[i], Single(k, i), "local"))
  /\ session' = Merge(session, tierUpdates(stores.cfgs[i], Single(k, i), "session"))
  /\ UNCHANGED <<storeVars, asyncVars, portVars, agentVars, obsVars, stores, ops>>

\* persistence.hydrate() of instance i, updateMetadata included
KHydrate(i) ==
  LET cfg == stores.cfgs[i]
      mk == getMetaKeyFor(cfg.name)
      existing == IF mk \in DOMAIN local THEN local[mk] ELSE NoMeta
  IN /\ stores' = [stores EXCEPT !.hydrated[i] = hydrateFrom(cfg, local, session)]
     /\ local' = Put(local, mk, newMeta(cfg, existing))
     /\ UNCHANGED <<storeVars, asyncVars, session, portVars, agentVars, obsVars, ops>>

InitKeys ==
  /\ InitCommon
  /\ local = Empty
  /\ configActions = AllActions
  /\ stores \in {[cfgs |-> pair, hydrated |-> <<Empty, Empty>>] :
                   pair \in {q \in ConfigsK \X ConfigsK :
                               <<q[1].name, q[1].version>> # <<q[2].name, q[2].version>>}}

NextKeys ==
  \/ \E i \in StoreIds, k \in KeysK : KPersist(i, k)
  \/ \E i \in StoreIds : KHydrate(i)

SpecKeys == InitKeys /\ [][NextKeys]_vars

\* C9: whatever hydrate() returns to one of two stores with distinct
\* (name, version) over the same storage was written by that store: no value
\* persisted through the other store is among it.
C9_HydrateReturnsOwnWritesOnly ==
  \A i \in StoreIds :
    \A k \in DOMAIN stores.hydrated[i] : stores.hydrated[i][k] = i

\* both stores, of one name and different versions, have persisted the same
\* state key with ":" in it, and each has hydrated its own value
C9_Witness ==
  /\ stores.cfgs[1].name = stores.cfgs[2].name
  /\ \E k \in KeysK :
       /\ k # <<"k">>
       /\ k \in DOMAIN stores.hydrated[1] /\ stores.hydrated[1][k] = 1
       /\ k \in DOMAIN stores.hydrated[2] /\ stores.hydrated[2][k] = 2

\* ------------------------------------------------------------------------
\* clearAll() of one of two Persistence instances (SpecClear), over the
\* storage, configs and writes of SpecKeys.
\* ------------------------------------------------------------------------
\* persistence.clearAll() of instance i
KClearAll(i) ==
  /\ local' = RemoveKeys(local, keysToRemove(stores.cfgs[i]))
  /\ session' = RemoveKeys(session, keysToRemove(stores.cfgs[i]))
  /\ UNCHANGED <<storeVars, asyncVars, portVars, agentVars, obsVars, stores, ops>>

NextClear ==
  \/ \E i \in StoreIds, k \in KeysK : KPersist(i, k)
  \/ \E i \in StoreIds : KHydrate(i)
  \/ \E i \in StoreIds : KClearAll(i)

\* the first instance is store "a", version 1; the second is any other
InitClear ==
  /\ InitKeys
  /\ stores.cfgs[1].name = <<"a">>
  /\ stores.cfgs[1].version = 1

SpecClear == InitClear /\ [][NextClear]_vars

\* crann:{name}:v{version}:{key} for the persist-enabled keys of instance i
ValueKeysOf(i) ==
  {buildKeyFor(stores.cfgs[i].name, stores.cfgs[i].version, k) :
     k \in {x \in KeysK : stores.cfgs[i].items[x].persist \in {"local", "session"}}}

MetaKeyOf(i) == getMetaKeyFor(stores.cfgs[i].name)

\* the storage keys ks are the same, with the same values, after the step
Untouched(ks) ==
  \A sk \in ks :
    /\ sk \in DOMAIN local <=> sk \in DOMAIN local'
    /\ sk \in DOMAIN local => local'[sk] = local[sk]
    /\ sk \in DOMAIN session <=> sk \in DOMAIN session'
    /\ sk \in DOMAIN session => session'[sk] = session[sk]

\* after the step no tier holds a value key or the metadata key of instance
\* i, and a hydrate() of instance i would return the empty partial
ClearedFor(i) ==
  /\ (ValueKeysOf(i) \cup {MetaKeyOf(i)}) \cap (DOMAIN local' \cup DOMAIN session') = {}
  /\ hydrateFrom(stores.cfgs[i], local', session') = Empty

\* C24 as stated: clearAll() of a store leaves no value key and no metadata
\* key of that store in either tier, makes its hydrate() return the empty
\* partial, and leaves unchanged every key of a store with another name or
\* another version, that store's metadata key included.
C24_ClearAllIsExact ==
  [][\A i \in StoreIds : \A j \in StoreIds \ {i} :
       KClearAll(i) =>
         /\ ClearedFor(i)
         /\ Untouched(ValueKeysOf(j) \cup {MetaKeyOf(j)})
    ]_vars

\* C24, amended: as above, but of the other store's keys only the value keys
\* are left unchanged, and its metadata key if its name is another one.
C24_ClearAllIsExactBelowTheName ==
  [][\A i \in StoreIds : \A j \in StoreIds \ {i} :
       KClearAll(i) =>
         /\ ClearedFor(i)
         /\ Untouched(ValueKeysOf(j))
         /\ stores.cfgs[j].name # stores.cfgs[i].name => Untouched({MetaKeyOf(j)})
    ]_vars

\* two versions of one name have both persisted and hydrated, and the first
\* one's keys are gone while the second one's value keys are there
C24_Witness ==
  /\ stores.cfgs[1].name = stores.cfgs[2].name
  /\ stores.hydrated[1] # Empty
  /\ stores.hydrated[2] # Empty
  /\ ValueKeysOf(1) \cap (DOMAIN local \cup DOMAIN session) = {}
  /\ ValueKeysOf(2) \subseteq (DOMAIN local \cup DOMAIN session)

\* a transport event of connection a reaches the Store's handlers in this step
InboundEvent(a) ==
  \/ Connect(a)
  \/ MessagesSet(a)
  \/ StoreReceiveSetState(a)
  \/ StoreReceiveRpc(a)
  \/ Disconnect(a)

\* C39: once the Store is destroyed, a connect, channel-ready, setState
\* request, rpc request or disconnect leaves the registry empty, leaves the
\* shared and the scoped state as they are, and adds no message to any queue
\* to an Agent.
C39_DestroyedStoreIgnoresTransport ==
  [][\A a \in Agents :
       (isDestroyed /\ InboundEvent(a)) =>
         /\ registry' = {}
         /\ sharedState' = sharedState
         /\ agentStates' = agentStates
         /\ \A b \in Agents : Len(toAgent'[b]) <= Len(toAgent[b])
    ]_vars

\* ------------------------------------------------------------------------
\* The initial snapshot of a connection, after writes of every kind (SpecSnap)
\* ------------------------------------------------------------------------
NextSnap ==
  \/ \E a \in Agents : Connect(a)
  \/ \E a \in Agents : MessagesSet(a)
  \/ \E a \in Agents : Disconnect(a)
  \/ \E p \in PartialsApi : StoreSetState(p)
  \/ \E p \in PartialsApi, a \in Agents : StoreSetStateFor(p, a)
  \/ \E p \in PartialsApi, a \in Agents : StoreSetAgentState(a, p)
  \/ PersistDone

SpecSnap == InitRpc /\ [][NextSnap]_vars

\* the Store posts X its initialState in this step
SendsInitialState(X) ==
  /\ MessagesSet(X)
  /\ X \notin initializedAgents
  /\ toAgent'[X] # toAgent[X]

\* C32: the initialState message the Store sends connection X carries the
\* Store's value of every shared key and X's own scoped value of every
\* agent-scoped key.
C32_InitialStateIsSharedPlusOwn ==
  [][\A X \in Agents :
       SendsInitialState(X) =>
         LET sent == toAgent'[X][Len(toAgent'[X])].state
         IN /\ \A k \in SharedKeys : k \in DOMAIN sent /\ sent[k] = sharedState[k]
            /\ \A k \in AgentKeys :
                 k \in DOMAIN sent /\ sent[k] = getAgentState(X)[k]
    ]_vars

\* ------------------------------------------------------------------------
\* setState calls overlapping while a subscriber listens (SpecFlight)
\* ------------------------------------------------------------------------
\* the owner has called store.subscribe(l1) right after createStore
InitFlight ==
  /\ InitButListeners
  /\ stateChangeListeners = <<"l1">>
  /\ local = Empty
  /\ stores = NoStores
  /\ configActions = AllActions

NextFlight ==
  \/ \E v \in Val : StoreSetState(Single(count, v))
  \/ PersistDone
  \/ \E l \in Listeners : StoreSubscribe(l)
  \/ \E a \in Agents : Connect(a)
  \/ \E a \in Agents : AgentReceive(a)

SpecFlight == InitFlight /\ [][NextFlight]_vars

\* C34: when a setState call notifies the subscribers of the Store, the
\* snapshot they are handed has, for each shared key of the changes they are
\* handed, the value the changes have.
C34_SnapshotAgreesWithChanges ==
  [][(NotifiesSetState /\ stateChangeListeners # <<>>) =>
       \A k \in DOMAIN Head(inflight).changes \cap SharedKeys :
         sharedState[k] = Head(inflight).changes[k]
    ]_vars

\* ------------------------------------------------------------------------
\* Connections made while the Store is still hydrating (SpecLate)
\* ------------------------------------------------------------------------
NextLate ==
  \/ HydrateRead
  \/ HydrateMetaGet
  \/ HydrateMetaSet
  \/ HydrateApply
  \/ \E a \in Agents : Connect(a)
  \/ \E a \in Agents : MessagesSet(a)
  \/ \E a \in Agents : AgentReceive(a)
  \/ \E v \in Val : StoreSetState(Single(count, v))
  \/ PersistDone

SpecLate == InitHydrate /\ [][NextLate]_vars

\* C35: an Agent whose initialState was posted before hydration completed
\* holds, once hydration has completed and nothing is in flight, the Store's
\* value of every shared key that hydration brought in.
C35_EarlySnapshotCatchesUp ==
  \A a \in Agents :
    ( /\ snapAt[a] = "before"
      /\ hydPc = "done"
      /\ ~isDestroyed
      /\ Quiescent
      /\ Ready(a) /\ link[a] = "ready" )
    => \A k \in DOMAIN hydrated.state : cache[a][k] = sharedState[k]

\* ------------------------------------------------------------------------
\* clear() while Agents are connected (SpecReset)
\* ------------------------------------------------------------------------
NextReset ==
  \/ \E a \in Agents : Connect(a)
  \/ \E a \in Agents : MessagesSet(a)
  \/ \E a \in Agents : AgentReceive(a)
  \/ StoreSetState(Single(count, 5))
  \/ PersistDone
  \/ StoreClear
  \/ ClearAllDone

SpecReset == InitRpc /\ [][NextReset]_vars

\* C36: when clear() was the last call made on the Store, has completed, and
\* nothing is in flight, the Store's value of every shared key is the config's
\* default and so is the cached value of every connected Agent.
C36_ClearReachesAgents ==
  ( /\ lastCall.op = "clear" /\ ~lastCall.threw
    /\ ~isDestroyed
    /\ Quiescent )
  => \A k \in SharedKeys :
       /\ sharedState[k] = Default(k)
       /\ \A a \in Agents : (Ready(a) /\ link[a] = "ready") => cache[a][k] = Default(k)

\* ------------------------------------------------------------------------
\* Storage writes that fail (SpecQuota)
\* ------------------------------------------------------------------------
NextQuota ==
  \/ \E l \in Listeners : StoreSubscribe(l)
  \/ \E v \in Val : StoreSetState(Single(count, v))
  \/ PersistDone
  \/ PersistFail
  \/ \E a \in Agents : Connect(a)
  \/ \E a \in Agents : AgentReceive(a)

SpecQuota == InitRpc /\ [][NextQuota]_vars

\* C38: when the storage write of a setState call that changed the state
\* settles, successfully or not, every subscriber of the Store is called and
\* every connection the change concerns is posted a stateUpdate.
C38_ChangeIsNotifiedWhateverStorageDoes ==
  [][(NotifiesSetState /\ ~Head(inflight).noop /\ ~listenerThrows) =>
       /\ lastSet'.listenerCalls = Len(stateChangeListeners)
       /\ \A b \in notifyTargets(Head(inflight).agentId) :
            StateUpdates(toAgent'[b]) = StateUpdates(toAgent[b]) + 1
    ]_vars

\* ------------------------------------------------------------------------
\* destroy({clearPersisted: true}) at any moment of the Store's start (SpecTeardown)
\* ------------------------------------------------------------------------
NextTeardown ==
  \/ HydrateRead
  \/ HydrateMetaGet
  \/ HydrateMetaSet
  \/ HydrateApply
  \/ \E v \in Val : StoreSetState(Single(count, v))
  \/ PersistDone
  \/ StoreDestroy(TRUE)
  \/ ClearAllDone

SpecTeardown == InitHydrate /\ [][NextTeardown]_vars

\* the storage keys of this store: its values and its metadata record
OwnKeys == {buildKey(k) : k \in ConfigKeys} \cup {getMetaKey}

\* C40: once the Store has been destroyed with clearPersisted (the only
\* destroy there is in SpecTeardown) and hydration and every storage call have
\* completed, neither tier holds a key of this store.
C40_NothingLeftAfterDestroy ==
  (isDestroyed /\ inflight = <<>> /\ hydPc = "done") =>
    /\ OwnKeys \cap DOMAIN local = {}
    /\ OwnKeys \cap DOMAIN session = {}

====
